---- MODULE Spec2Model ----
(***************************************************************************)
(* Model of backend/app.py: the download registry (active_downloads), the  *)
(* routes quick_download, stream_video and clear_downloads, the streaming  *)
(* generators nested in stream_video, and the extraction chains of         *)
(* AdvancedTikTokExtractor and StreamingVideoExtractor.                    *)
(*                                                                         *)
(* Strings built with f-strings are modelled as sequences of tokens, so    *)
(* that "x in str(e)" becomes membership of a token in the sequence.       *)
(* Dictionaries are functions; dict.update adds or overwrites keys.        *)
(* Wall-clock derived fields (speed, eta, total_time, created_at) and the  *)
(* descriptive fields (title, filename, filesize) are not carried.         *)
(***************************************************************************)
EXTENDS Integers, Sequences, FiniteSets, TLC

\* ------------------------------------------------------------------ bounds
MaxSessions == 1
MaxStreams == 2
MaxInv == 2
MaxConcurrentSessions == 2
MaxElapsed == 6
MaxBytes == 2
TicksPerSecond == 2

\* --------------------------------------------------------------- constants
max_retries == 3
RetryTotal == 2

PercentScale == 10

VARIABLES active_downloads, inv, nextId, streams, chain, call

vars == <<active_downloads, inv, nextId, streams, chain, call>>
relayVars == <<active_downloads, inv, nextId, streams>>

\* ----------------------------------------------------------------- helpers
Min(a, b) == IF a < b THEN a ELSE b

Range(s) == {s[k] : k \in DOMAIN s}

\* "tok in text" for a text modelled as a sequence of tokens
Contains(text, tok) == \E k \in DOMAIN text : text[k] = tok

\* dict.update(kv): keys of kv are added or overwritten, the others are kept
DictUpdate(d, kv) ==
    [k \in (DOMAIN d) \cup (DOMAIN kv) |-> IF k \in DOMAIN kv THEN kv[k] ELSE d[k]]

\* active_downloads[id].update(kv)
SessionUpdate(reg, id, kv) == [reg EXCEPT ![id] = DictUpdate(reg[id], kv)]

Ids == 1..MaxSessions
Invs == 1..MaxInv
Platforms == {"tiktok", "youtube"}
NoUrl == <<0, 0>>

\* ------------------------------------------------------- error texts (str(e))
Err403 == <<"403", "Forbidden", "direct_url">>
Err404 == <<"404", "Not Found", "Video may have been deleted">>
ErrHttp == <<"HTTP", "status", "reason">>
ErrRetry == <<"Max retries exceeded">>
ErrTransport == <<"Connection failed">>
ErrMidstream == <<"Connection broken">>
ErrExtract == <<"extraction failed">>
ErrKey == <<"KeyError", "download_id">>

\* ------------------------------------------------------------- the registry
\* a variant whose new record is already marked as streaming
NewSession_streaming(id, platform) ==
    [id |-> id, status |-> "streaming", platform |-> platform, type |-> "streaming"]

\* quick_download creates the record with these keys (app.py 1196-1206)
NewSession(id, platform) ==
    [id |-> id, status |-> "ready", platform |-> platform, type |-> "streaming"]

\* a variant that does not keep the sessions that are ready
KeptStatuses_noready == {"queued", "starting", "streaming"}

\* clear_downloads keeps a session iff its status is one of these
KeptStatuses == {"queued", "starting", "streaming", "ready"}

\* socketio.emit(name, payload)
Event(name, payload) == DictUpdate([name |-> name], payload)

\* The forms of a video URL: the canonical page URL, and the short URL of
\* vm.tiktok.com or vt.tiktok.com that redirects to it
CanonicalUrl == <<"www.tiktok.com", "video">>
ShortUrl == <<"vm.tiktok.com", "code">>
UrlForms == {CanonicalUrl, ShortUrl}
NoPage == <<"none">>

\* ------------------------------------------------------- request headers
\* A header mapping is a function from header names to values; the empty
\* mapping is <<>>.
NoHeaders == <<>>

\* d.get(name) is truthy: the key is there and its value is not empty
Truthy(d, name) == name \in DOMAIN d /\ d[name] # ""

\* http_headers of base_options (app.py 882-889); of its six keys the model
\* carries User-Agent, Accept and Accept-Encoding
base_http_headers ==
    [h \in {"User-Agent", "Accept", "Accept-Encoding"} |->
        IF h = "User-Agent" THEN "Chrome/119 Windows"
        ELSE IF h = "Accept" THEN "*/*" ELSE "gzip, deflate, br"]

\* the values random.choice(self.mobile_user_agents) can give (app.py 44-50)
mobile_user_agents == {"Safari iPhone 16_0", "Chrome Android 13"}

\* the Referer values the strategies put in their result (app.py 195, 253,
\* 305, 357, 496)
Referers ==
    {"https://snaptik.app/", "https://tikmate.online/", "https://savett.cc/",
     "https://ssstik.io/", "https://www.tiktok.com/"}

\* 'headers' of the result of a TikTok strategy (app.py 193-196)
StrategyHeaders(user_agent, referer) ==
    [h \in {"User-Agent", "Referer"} |-> IF h = "User-Agent" THEN user_agent ELSE referer]

\* the header mappings an extraction result can carry: those of the TikTok
\* strategies and, for the other platforms, base_options['http_headers']
\* (app.py 1034)
InfoHeaders ==
    {StrategyHeaders(ua, ref) : ua \in mobile_user_agents, ref \in Referers}
        \cup {base_http_headers}

\* the update for a direct URL that mentions tiktok (app.py 1426-1439); of
\* its twelve keys the model carries six
tiktok_update ==
    [h \in {"Accept", "Accept-Encoding", "Connection", "Referer", "Origin", "User-Agent"} |->
        CASE h = "Accept" -> "*/*"
          [] h = "Accept-Encoding" -> "identity"
          [] h = "Connection" -> "keep-alive"
          [] h = "Referer" -> "https://www.tiktok.com/"
          [] h = "Origin" -> "https://www.tiktok.com"
          [] h = "User-Agent" -> "Safari iPhone 16_0"]

\* the update for any other direct URL (app.py 1441-1445)
plain_update ==
    [h \in {"Accept", "Accept-Encoding", "Connection"} |->
        CASE h = "Accept" -> "*/*"
          [] h = "Accept-Encoding" -> "identity"
          [] h = "Connection" -> "keep-alive"]

\* a variant that never copies the caller's Range header
UpstreamHeaders_norange(info_headers, mentions_tiktok, request_headers) ==
    DictUpdate(info_headers, IF mentions_tiktok THEN tiktok_update ELSE plain_update)

\* headers of perform_streaming as session.get receives them (app.py
\* 1421-1450): a copy of the result's headers, updated by the platform's
\* headers, and the caller's Range header if request.headers.get('Range')
\* is truthy
UpstreamHeaders(info_headers, mentions_tiktok, request_headers) ==
    LET headers == DictUpdate(info_headers,
                              IF mentions_tiktok THEN tiktok_update ELSE plain_update)
    IN  IF Truthy(request_headers, "Range")
        THEN DictUpdate(headers, [Range |-> request_headers["Range"]])
        ELSE headers

\* the headers of the video_info a stream of platform p hands to
\* perform_streaming: the relay model takes the first of the values the
\* strategies can give
RelayInfoHeaders(p) ==
    IF p = "tiktok"
    THEN StrategyHeaders("Safari iPhone 16_0", "https://www.tiktok.com/")
    ELSE base_http_headers

\* --------------------------------------------------- one stream_video call
\* The locals of one stream_video invocation and of the generators nested in
\* it.  pc: "idle" | "initial" (session looked up, initial extraction not yet
\* run) | "response" (Response built, generator not started) | "reg_extract"
\* | "tt_extract" | "get" (inside session.get) | "body" (inside the
\* iter_content loop) | "done".
\* History fields: serial/nextract (which extraction produced a URL), dead
\* (URL that answered 403/404 with no extraction since), prior (media bytes
\* of an earlier fetch were yielded), delivered (bytes yielded by this fetch),
\* errmsg (an error text was yielded), end (how the byte sequence ended),
\* http (reply code), emitted (last event published by the invocation),
\* answers (what the attempts met so far: "none", "only403" when each one had
\* its GET answered 403, else "mixed"),
\* failed (attempts of handle_regular_streaming that raised),
\* url (the URL of the session, as stream_video read it), given (the URL the
\* TikTok strategy invoked last received; NoPage before any), cleaned
\* (_clean_tiktok_url was applied to the URL before that strategy got it),
\* request (request.headers of the caller), sent (the headers session.get
\* received last), response_length (Content-Length of the Response
\* stream_video returned, 0 when it has none), upstream (status of the
\* upstream response whose body is being relayed, 0 outside of "body"),
\* events (progress events of the running fetch, counted up to 2), gap
\* (ticks between the last two of them, at most TicksPerSecond), error_str
\* (the local of handle_tiktok_streaming: the text of the error after which
\* the running fetch was started, <<>> for the first fetch of a method).
IdleInv ==
    [pc |-> "idle", id |-> 0, platform |-> "none", serial |-> 0, nextract |-> 0,
     retry |-> 0, method |-> 0, attempt |-> 0, direct_url |-> NoUrl, tries |-> 0,
     total_size |-> 0, downloaded |-> 0, remaining |-> 0, since |-> 0,
     open |-> FALSE, err |-> <<>>, dead |-> NoUrl, prior |-> FALSE,
     delivered |-> 0, errmsg |-> FALSE, end |-> "none", http |-> 0,
     emitted |-> [name |-> "none"], answers |-> "none", failed |-> 0,
     url |-> NoPage, given |-> NoPage, cleaned |-> FALSE,
     request |-> NoHeaders, sent |-> NoHeaders, response_length |-> 0, upstream |-> 0,
     events |-> 0, gap |-> 0, error_str |-> <<>>]

Active(i) == inv[i].pc \notin {"idle", "done"}

\* the direct URL returned by the k-th extraction of invocation number serial;
\* serial 0 is session creation (quick_download), k the session id
FreshUrl(serial, k) == <<serial, k>>

\* a variant that hands back the URL obtained when the session was created
ExtractedInfo_cached(r) == [direct_url |-> FreshUrl(0, r.id)]

\* video_info returned by extractor.extract_direct_url inside a stream
ExtractedInfo(r) == [direct_url |-> FreshUrl(r.serial, r.nextract + 1)]

\* how the HEAD request of _clean_tiktok_url ends
HeadOutcomes == {"redirected", "failed"}

\* _clean_tiktok_url (app.py 506-523): a short URL is replaced by the URL the
\* HEAD request was redirected to; when the request raises, the bare except
\* leaves the URL as it is
clean_tiktok_url(url, head) ==
    IF Contains(url, "vm.tiktok.com") \/ Contains(url, "vt.tiktok.com")
    THEN IF head = "redirected" THEN CanonicalUrl ELSE url
    ELSE url

\* the URL the strategy of entry m of tiktok_methods receives (app.py
\* 1277-1286, 1294): the first entry goes through extract_direct_url and
\* extract_tiktok_video, which cleans the URL (app.py 66); the lambdas of the
\* other entries pass u to the strategy as it is
MethodUrl(m, url, head) == IF m = 1 THEN clean_tiktok_url(url, head) ELSE url

\* whether the URL of entry m went through _clean_tiktok_url
MethodCleans(m) == m = 1

\* tiktok_methods (app.py 1276-1287), names lower-cased and split in words
tiktok_methods ==
    << <<"primary", "yt-dlp">>, <<"fresh", "yt-dlp">>, <<"api", "rotation">>,
       <<"browser", "simulation">>, <<"snaptik", "service">>,
       <<"tikmate", "service">>, <<"savett", "service">>, <<"tikwm", "service">>,
       <<"cors", "proxy">>, <<"ssstik", "fallback">> >>

\* any(service in method_name.lower() for service in [...]) (app.py 1300)
IsService(name) ==
    \E service \in {"snaptik", "tikmate", "savett", "tikwm"} : Contains(name, service)

\* status_forcelist of the Retry adapter (app.py 1462)
status_forcelist == {429, 500, 502, 503, 504}

\* the upstream answers modelled; 0 stands for no answer (connection error)
Statuses == {200, 403, 404, 410, 429, 503, 0}

\* the answers to a GET with these headers: a request with a Range header
\* can also be answered 206 Partial Content
UpstreamStatuses(headers) ==
    Statuses \cup (IF "Range" \in DOMAIN headers THEN {206} ELSE {})

\* round(downloaded / total_size * 100, 1), in tenths of a percent
Percentage(downloaded, total_size) ==
    IF total_size > 0
    THEN (2 * downloaded * 100 * PercentScale + total_size) \div (2 * total_size)
    ELSE 0

\* perform_streaming is entered: a new requests.Session, counters at zero
EnterPerform(r, url) ==
    [r EXCEPT !.pc = "get", !.direct_url = url, !.tries = RetryTotal, !.open = TRUE,
              !.sent = UpstreamHeaders(RelayInfoHeaders(r.platform), r.platform = "tiktok",
                                       r.request),
              !.total_size = 0, !.downloaded = 0, !.remaining = 0, !.since = 0,
              !.delivered = 0]

\* a pair (invocation record, registry)
Out(r, reg) == [r |-> r, reg |-> reg]

\* socketio.emit from inside a stream: the record keeps the last event the
\* invocation published
Emit(r, ev) == [r EXCEPT !.emitted = ev]

\* the generator returns or is closed: its frames and their locals are gone
Ended(r, how) ==
    [r EXCEPT !.pc = "done", !.end = how, !.open = FALSE, !.retry = 0, !.method = 0,
              !.attempt = 0, !.tries = 0, !.since = 0, !.dead = NoUrl, !.upstream = 0,
              !.events = 0, !.gap = 0, !.error_str = <<>>]

\* except-branch of generate_stream (app.py 1252-1270)
GenerateStreamExcept(r, e, reg) ==
    Out(Emit(Ended([r EXCEPT !.err = e, !.errmsg = TRUE], "normal"),
             Event("download_status", [id |-> r.id, status |-> "error", error |-> e])),
        IF r.id \in DOMAIN reg
        THEN SessionUpdate(reg, r.id, [status |-> "error", error |-> e])
        ELSE reg)

\* a handler records the failure, publishes it and yields the text; a missing
\* session makes the update raise KeyError into generate_stream
FinalFailure(r, msg, reg) ==
    IF r.id \in DOMAIN reg
    THEN Out(Emit(Ended([r EXCEPT !.errmsg = TRUE], "normal"),
                  Event("download_status", [id |-> r.id, status |-> "error", error |-> msg])),
             SessionUpdate(reg, r.id, [status |-> "error", error |-> msg]))
    ELSE GenerateStreamExcept(r, ErrKey, reg)

\* a variant whose text leaves out the error of the last attempt
RegularFailureMsg_generic(e) == <<"Regular streaming failed after", "3", "attempts">>

\* error_msg of handle_regular_streaming (app.py 1401)
RegularFailureMsg(e) == <<"Regular streaming failed after", "3", "attempts">> \o e

\* error_msg of handle_tiktok_streaming (app.py 1353)
TikTokFailureMsg == <<"All TikTok extraction and streaming methods failed">>

\* a variant that goes round the retry loop once more
RegularExcept_oncemore(r, e, reg) ==
    IF r.retry < max_retries
    THEN Out([r EXCEPT !.pc = "reg_extract", !.retry = @ + 1, !.err = e,
                       !.failed = @ + 1], reg)
    ELSE FinalFailure([r EXCEPT !.err = e, !.failed = @ + 1], RegularFailureMsg(e), reg)

\* except-branch of handle_regular_streaming (app.py 1391-1415)
RegularExcept(r, e, reg) ==
    IF r.retry < max_retries - 1
    THEN Out([r EXCEPT !.pc = "reg_extract", !.retry = @ + 1, !.err = e,
                       !.failed = @ + 1], reg)
    ELSE FinalFailure([r EXCEPT !.err = e, !.failed = @ + 1], RegularFailureMsg(e), reg)

\* the for-loop of handle_tiktok_streaming moves to the next method, or
\* falls out of the loop (app.py 1289, 1352-1367)
TikTokNextMethod(r, reg) ==
    IF r.method < Len(tiktok_methods)
    THEN Out([r EXCEPT !.pc = "tt_extract", !.method = @ + 1, !.attempt = 0,
                       !.error_str = <<>>], reg)
    ELSE FinalFailure(r, TikTokFailureMsg, reg)

\* a variant that starts the second fetch after any error
TikTokStreamExcept_anyerror(r, e, reg) ==
    IF IsService(tiktok_methods[r.method])
    THEN TikTokNextMethod(r, reg)
    ELSE IF r.attempt = 0
         THEN Out(EnterPerform([r EXCEPT !.attempt = @ + 1, !.error_str = e], r.direct_url),
                  reg)
         ELSE TikTokNextMethod(r, reg)

\* except-branches around perform_streaming in handle_tiktok_streaming
\* (app.py 1315-1317 and 1335-1346)
TikTokStreamExcept(r, e, reg) ==
    IF IsService(tiktok_methods[r.method])
    THEN TikTokNextMethod(r, reg)
    ELSE IF (Contains(e, "403") \/ Contains(e, "Forbidden")) /\ r.attempt = 0
         THEN Out(EnterPerform([r EXCEPT !.attempt = @ + 1, !.error_str = e], r.direct_url),
                  reg)
         ELSE TikTokNextMethod(r, reg)

\* perform_streaming raises e: finally closes the session, then the handler
\* that called it catches the exception
PerformRaises(r, e, reg) ==
    LET c == [r EXCEPT !.open = FALSE, !.prior = @ \/ (r.delivered > 0), !.upstream = 0,
                       !.events = 0, !.gap = 0]
    IN  IF r.platform = "tiktok"
        THEN TikTokStreamExcept(c, e, reg)
        ELSE RegularExcept(c, e, reg)

Apply(i, o) ==
    /\ inv' = [inv EXCEPT ![i] = o.r]
    /\ active_downloads' = o.reg

\* ------------------------------------------------------------------ actions
\* quick_download (app.py 1170-1222) when the extraction succeeds for a URL
\* of platform p, or fails; uuid4 gives an id never used before
QuickDownloadUrl(p, url) ==
    /\ IF p \in Platforms
       THEN /\ active_downloads' =
                  [k \in (DOMAIN active_downloads) \cup {nextId} |->
                      IF k = nextId THEN DictUpdate(NewSession(nextId, p), [url |-> url])
                      ELSE active_downloads[k]]
            /\ nextId' = nextId + 1
       ELSE UNCHANGED <<active_downloads, nextId>>
    /\ UNCHANGED <<inv, streams, chain, call>>

\* quick_download for a URL in canonical form
QuickDownloadFor(p) == QuickDownloadUrl(p, CanonicalUrl)

Extractions == Platforms \cup {"extraction failed"}

QuickDownload ==
    /\ nextId <= MaxSessions
    /\ \E p \in Extractions : QuickDownloadFor(p)

\* the dict comprehension of clear_downloads (app.py 1660-1663)
Retained(reg) ==
    [k \in {id \in DOMAIN reg : reg[id].status \in KeptStatuses} |-> reg[k]]

\* cleared_count in the reply of clear_downloads (app.py 1659, 1664)
cleared_count(reg) == Cardinality(DOMAIN reg) - Cardinality(DOMAIN Retained(reg))

\* clear_downloads (app.py 1654-1672)
ClearDownloads ==
    /\ active_downloads' = Retained(active_downloads)
    /\ UNCHANGED <<inv, nextId, streams, chain, call>>

\* stream_video up to the session lookup (app.py 1224-1232) for a request
\* with the given headers, run by a thread of the server that is free (the
\* lowest free slot i)
StreamVideoFrom(i, id, request_headers) ==
    /\ streams < MaxStreams
    /\ ~Active(i)
    /\ \A j \in Invs : j < i => Active(j)
    /\ streams' = streams + 1
    /\ inv' = [inv EXCEPT ![i] =
                 IF id \in DOMAIN active_downloads
                 THEN [IdleInv EXCEPT !.pc = "initial", !.id = id, !.serial = streams + 1,
                                      !.platform = active_downloads[id].platform,
                                      !.url = active_downloads[id].url,
                                      !.request = request_headers]
                 ELSE [IdleInv EXCEPT !.pc = "done", !.id = id, !.serial = streams + 1,
                                      !.http = 404, !.request = request_headers]]
    /\ UNCHANGED <<active_downloads, nextId, chain, call>>

\* a variant that runs the extraction before it looks the session up
StreamVideo_extractfirst(i, id) ==
    /\ streams < MaxStreams
    /\ ~Active(i)
    /\ \A j \in Invs : j < i => Active(j)
    /\ streams' = streams + 1
    /\ inv' = [inv EXCEPT ![i] =
                 IF id \in DOMAIN active_downloads
                 THEN [IdleInv EXCEPT !.pc = "initial", !.id = id, !.serial = streams + 1,
                                      !.platform = active_downloads[id].platform,
                                      !.url = active_downloads[id].url]
                 ELSE [IdleInv EXCEPT !.pc = "done", !.id = id, !.serial = streams + 1,
                                      !.nextract = 1, !.http = 404]]
    /\ UNCHANGED <<active_downloads, nextId, chain, call>>

\* stream_video for a request without a Range header
StreamVideo(i, id) == StreamVideoFrom(i, id, NoHeaders)

\* streams issued one at a time: the caller starts none while another is
\* running
StreamRequest(i, id) ==
    /\ \A j \in Invs : ~Active(j)
    /\ StreamVideo(i, id)

\* a variant that records the failure of the extraction in the session
InitialExtractOf_recorded(i, filesizes) ==
    /\ inv[i].pc = "initial"
    /\ \E ok \in BOOLEAN, filesize \in filesizes :
         IF ok
         THEN /\ inv' = [inv EXCEPT ![i] =
                          [@ EXCEPT !.pc = "response", !.nextract = @ + 1, !.http = 200,
                                    !.response_length = IF filesize > 0 THEN filesize ELSE 0]]
              /\ UNCHANGED active_downloads
         ELSE /\ inv' = [inv EXCEPT ![i] =
                          [@ EXCEPT !.pc = "done", !.nextract = @ + 1, !.http = 400]]
              /\ active_downloads' =
                    IF inv[i].id \in DOMAIN active_downloads
                    THEN SessionUpdate(active_downloads, inv[i].id,
                                       [status |-> "error", error |-> ErrExtract])
                    ELSE active_downloads
    /\ UNCHANGED <<nextId, streams, chain, call>>

\* the initial extraction and the Response object (app.py 1573-1614); the
\* extraction fails, or gives a filesize of filesizes (0 stands for None):
\* the Response has status 200 and, for a filesize above 0, that
\* Content-Length
InitialExtractOf(i, filesizes) ==
    /\ inv[i].pc = "initial"
    /\ \E ok \in BOOLEAN, filesize \in filesizes :
         inv' = [inv EXCEPT ![i] =
                   IF ok
                   THEN [@ EXCEPT !.pc = "response", !.nextract = @ + 1, !.http = 200,
                                  !.response_length = IF filesize > 0 THEN filesize ELSE 0]
                   ELSE [@ EXCEPT !.pc = "done", !.nextract = @ + 1, !.http = 400]]
    /\ UNCHANGED <<active_downloads, nextId, streams, chain, call>>

\* the initial extraction when the result carries no filesize
InitialExtract(i) == InitialExtractOf(i, {0})

\* generate_stream starts (app.py 1236-1250)
GenerateStream(i) ==
    /\ inv[i].pc = "response"
    /\ LET r == inv[i]
       IN  IF r.id \in DOMAIN active_downloads
           THEN Apply(i, Out(Emit([r EXCEPT !.pc = IF r.platform = "tiktok" THEN "tt_extract"
                                                                            ELSE "reg_extract",
                                            !.method = IF r.platform = "tiktok" THEN 1 ELSE 0],
                                  Event("download_status", [id |-> r.id, status |-> "streaming"])),
                             SessionUpdate(active_downloads, r.id, [status |-> "streaming"])))
           ELSE Apply(i, GenerateStreamExcept(r, ErrKey, active_downloads))
    /\ UNCHANGED <<nextId, streams, chain, call>>

\* the history field answers after an attempt met status st; 0 stands for
\* no answer (no URL was extracted, or the connection failed)
Answered(r, st) ==
    [r EXCEPT !.answers = IF st = 403 /\ @ \in {"none", "only403"} THEN "only403"
                          ELSE "mixed"]

\* handle_regular_streaming: one pass of the retry loop up to the call of
\* perform_streaming (app.py 1373-1385)
RegularExtract(i) ==
    /\ inv[i].pc = "reg_extract"
    /\ LET r == [inv[i] EXCEPT !.nextract = @ + 1, !.dead = NoUrl]
       IN  \E ok \in BOOLEAN :
             IF ok
             THEN Apply(i, Out(EnterPerform(r, ExtractedInfo(inv[i]).direct_url),
                               active_downloads))
             ELSE Apply(i, RegularExcept(Answered(r, 0), ErrExtract, active_downloads))
    /\ UNCHANGED <<nextId, streams, chain, call>>

\* handle_tiktok_streaming: the extraction of one method (app.py 1289-1297,
\* 1348-1350); "empty" is a result without direct_url
TikTokExtract(i) ==
    /\ inv[i].pc = "tt_extract"
    /\ \E head \in HeadOutcomes :
       LET r == [inv[i] EXCEPT !.nextract = @ + 1, !.dead = NoUrl,
                               !.given = MethodUrl(inv[i].method, inv[i].url, head),
                               !.cleaned = MethodCleans(inv[i].method)]
       IN  \E res \in {"ok", "empty", "raise"} :
             IF res = "ok"
             THEN Apply(i, Out(EnterPerform(r, ExtractedInfo(inv[i]).direct_url),
                               active_downloads))
             ELSE Apply(i, TikTokNextMethod(Answered(r, 0), active_downloads))
    /\ UNCHANGED <<nextId, streams, chain, call>>

\* int(response.headers.get('content-length', 0)) for a body of n bytes: the
\* header is absent, right, or announces more than the upstream then sends
ContentLength(announced, n) ==
    IF announced = "no" THEN 0 ELSE IF announced = "exact" THEN n ELSE n + 1

\* perform_streaming: one request sent by session.get through the Retry
\* adapter, and the status check (app.py 1452-1501).  An answer in
\* status_forcelist or a connection error is retried on the same URL while
\* the adapter has retries left.
UpstreamGet(i) ==
    /\ inv[i].pc = "get"
    /\ \E st \in UpstreamStatuses(inv[i].sent) :
         LET r == Answered(inv[i], st)
         IN  IF st \in status_forcelist \cup {0}
             THEN IF r.tries > 0
                  THEN Apply(i, Out([r EXCEPT !.tries = @ - 1], active_downloads))
                  ELSE Apply(i, PerformRaises(r, IF st = 0 THEN ErrTransport ELSE ErrRetry,
                                              active_downloads))
             ELSE IF st = 403
             THEN Apply(i, PerformRaises([r EXCEPT !.dead = r.direct_url], Err403,
                                         active_downloads))
             ELSE IF st = 404
             THEN Apply(i, PerformRaises([r EXCEPT !.dead = r.direct_url], Err404,
                                         active_downloads))
             ELSE IF st >= 400
             THEN Apply(i, PerformRaises(r, ErrHttp, active_downloads))
             ELSE \E n \in 0..MaxBytes, announced \in {"no", "exact", "more"} :
                    LET total_size == ContentLength(announced, n)
                    IN  IF r.id \in DOMAIN active_downloads
                        THEN Apply(i, Out([r EXCEPT !.pc = "body", !.total_size = total_size,
                                                    !.remaining = n, !.upstream = st],
                                          SessionUpdate(active_downloads, r.id,
                                              [total_bytes |-> total_size, status |-> "streaming"])))
                        ELSE Apply(i, PerformRaises(r, ErrKey, active_downloads))
    /\ UNCHANGED <<nextId, streams, chain, call>>

\* progress_data (app.py 1524-1532)
ProgressData(id, downloaded, total_size) ==
    [id |-> id, status |-> "streaming", downloaded_bytes |-> downloaded,
     total_bytes |-> total_size, percentage |-> Percentage(downloaded, total_size)]

\* the test that guards the progress update (app.py 1518); times in ticks
ProgressDue(elapsed, downloaded, total_size) ==
    elapsed >= TicksPerSecond \/ downloaded >= total_size

\* one pass of the iter_content loop: a chunk of c bytes arrives dt ticks
\* after the previous reading of the clock, and is yielded (app.py 1510-1538)
Chunk(i) ==
    /\ inv[i].pc = "body"
    /\ inv[i].remaining > 0
    /\ LET r == inv[i]
       IN  \E c \in 1..r.remaining, dt \in 0..TicksPerSecond :
             LET downloaded == r.downloaded + c
                 elapsed == Min(r.since + dt, TicksPerSecond)
                 y == [r EXCEPT !.downloaded = downloaded, !.remaining = @ - c,
                                !.delivered = @ + c]
             IN  IF ProgressDue(elapsed, downloaded, r.total_size)
                 THEN IF r.id \in DOMAIN active_downloads
                      THEN Apply(i, Out(Emit([y EXCEPT !.since = 0,
                                                       !.events = Min(@ + 1, 2),
                                                       !.gap = IF r.events > 0 THEN elapsed
                                                               ELSE 0],
                                             Event("download_progress",
                                                   ProgressData(r.id, downloaded, r.total_size))),
                                        SessionUpdate(active_downloads, r.id,
                                            ProgressData(r.id, downloaded, r.total_size))))
                      ELSE Apply(i, PerformRaises([r EXCEPT !.downloaded = downloaded], ErrKey,
                                                  active_downloads))
                 ELSE Apply(i, Out([y EXCEPT !.since = elapsed], active_downloads))
    /\ UNCHANGED <<nextId, streams, chain, call>>

\* iter_content raises: the connection breaks before the body is complete,
\* or the body ends short of the announced length and the HTTP library in
\* use reports it (app.py 1560-1566)
StreamBreaks(i) ==
    /\ inv[i].pc = "body"
    /\ inv[i].remaining > 0 \/ inv[i].downloaded < inv[i].total_size
    /\ Apply(i, PerformRaises(inv[i], ErrMidstream, active_downloads))
    /\ UNCHANGED <<nextId, streams, chain, call>>

\* the update made when the iter_content loop has ended (app.py 1544-1549)
CompletedData == [status |-> "completed", percentage |-> 100 * PercentScale]

\* the iter_content loop ends (app.py 1540-1558, 1567-1571)
Finish(i) ==
    /\ inv[i].pc = "body"
    /\ inv[i].remaining = 0
    /\ LET r == inv[i]
       IN  IF r.id \in DOMAIN active_downloads
           THEN Apply(i, Out(Emit(Ended(r, "normal"),
                                  Event("download_status",
                                        [id |-> r.id, status |-> "completed",
                                         percentage |-> 100 * PercentScale])),
                             SessionUpdate(active_downloads, r.id, CompletedData)))
           ELSE Apply(i, PerformRaises(r, ErrKey, active_downloads))
    /\ UNCHANGED <<nextId, streams, chain, call>>

\* a variant that reads the rest of the body from the upstream before it ends
OnConsumerClose_drain(r) ==
    Ended([r EXCEPT !.downloaded = @ + r.remaining, !.remaining = 0], "closed")

\* GeneratorExit raised at the yield where the generator is suspended: no
\* except-clause catches it, finally closes the session (app.py 1538, 1567-1571)
OnConsumerClose(r) == Ended(r, "closed")

\* the consumer stops reading: the generator is closed where it is suspended
\* (at "yield chunk"), or before it was ever started
ConsumerClose(i) ==
    /\ \/ inv[i].pc = "body" /\ inv[i].delivered > 0
       \/ inv[i].pc = "response"
    /\ inv' = [inv EXCEPT ![i] = OnConsumerClose(@)]
    /\ UNCHANGED <<active_downloads, nextId, streams, chain, call>>

RelayInit ==
    /\ active_downloads = <<>>
    /\ inv = [i \in Invs |-> IdleInv]
    /\ nextId = 1
    /\ streams = 0

\* ------------------------------------------------------ extraction chains
\* The labels under which extract_tiktok_video records the failure of its
\* five methods (app.py 69-102); the fourth is _extract_with_proxy_services
tiktok_chain ==
    <<"yt-dlp method", "API rotation", "Browser simulation", "Proxy services",
      "SSSTik method">>

\* proxy_services (app.py 111-117)
proxy_services == <<"SnapTik", "TikMate", "SaveTT", "TikWM", "CORS Proxy">>

\* the labels of the four attempts of _extract_youtube_with_fallback
\* (app.py 940-982)
youtube_chain == <<"Standard method", "Android client", "Embedded client", "Basic method">>

\* what a failing strategy reports; str(e) of strategy s is the pair <<s, why>>
Whys == {"blocked", "timeout"}

\* the values detect_platform returns (app.py 1047-1060)
ChainPlatforms == {"tiktok", "youtube", "instagram", "facebook", "unknown"}

\* self.base_options of StreamingVideoExtractor as __init__ builds it
\* (app.py 876-892); of its keys the model carries format and http_headers,
\* of the headers User-Agent, Accept and Accept-Encoding
base_options == [format |-> "best[height<=1080]", http_headers |-> base_http_headers]

\* the http_headers the YouTube branch puts in its options (app.py 912-917)
youtube_headers ==
    [h \in {"User-Agent", "Accept", "Sec-Fetch-Mode"} |->
        IF h = "User-Agent" THEN "Chrome/119 Windows"
        ELSE IF h = "Accept" THEN "text/html" ELSE "navigate"]

\* _extract_other_platform up to the call of the extraction (app.py 906-927).
\* options is a shallow copy of the shared base: its http_headers is the
\* very mapping of the base, so the assignment of the Instagram branch
\* writes into the base, while the update of the YouTube branch rebinds
\* the key of the copy.  Gives the base and the options after these lines.
OtherPlatformOptions(base, platform) ==
    IF platform = "youtube"
    THEN [base |-> base,
          options |-> [base EXCEPT !.format = "best[height<=1080]/bestvideo+bestaudio/best",
                                   !.http_headers = youtube_headers]]
    ELSE IF platform = "instagram"
    THEN LET b == [base EXCEPT !.http_headers["User-Agent"] = "Safari iPhone"]
         IN  [base |-> b, options |-> b]
    ELSE [base |-> base, options |-> base]

\* the texts raised to the caller when a chain is exhausted
TikTokExhausted == <<"TikTok extraction failed completely">>
ProxyExhausted == <<"All proxy services failed">>
YouTubeExhausted == <<"YouTube video extraction failed">>

\* The extractor and the state of one extract_direct_url call.  shared: the
\* extractor's base_options; options: the options of the call (NoOptions
\* when it builds none); invoked/outcomes: the
\* strategies called so far and how each ended; errors: the local list
\* errors; logged: the text given to logger.error; raised: the text of the
\* exception the caller receives; result: the strategy whose result is
\* returned; elapsed: the minutes the strategies of the call have taken so
\* far, counted up to MaxElapsed.
NoOptions == [format |-> "none", http_headers |-> <<>>]

ChainIdle ==
    [pc |-> "idle", platform |-> "none", top |-> 0, sub |-> 0, invoked |-> <<>>,
     outcomes |-> <<>>, errors |-> <<>>, logged |-> <<>>, raised |-> <<>>,
     result |-> "none", shared |-> base_options, options |-> NoOptions, elapsed |-> 0]

\* the outcome of a strategy that returned a result
Ok == <<"ok">>

\* what one strategy can take, in minutes: its requests carry timeouts of 10
\* to 60 seconds each (app.py 145, 167, 557, 599, 639) and nothing else
\* limits it
Durations == {0, 1}

\* the chain went on to state c after a strategy that took d minutes
Took(c, d) == [c EXCEPT !.elapsed = Min(chain.elapsed + d, MaxElapsed)]

\* "\n".join(errors)
RECURSIVE Join(_)
Join(list) == IF list = <<>> THEN <<>> ELSE Head(list) \o Join(Tail(list))

\* a strategy was called and ended with outcome o (Ok or the text it raised)
Invoked(c, name, o) ==
    [c EXCEPT !.invoked = Append(@, name), !.outcomes = Append(@, o)]

\* as ChainReturns, but the loop over proxy_services keeps the result and
\* goes on to the next service instead of returning
ChainReturns_noreturn(c, name) ==
    IF c.top = 4 /\ c.sub < 5
    THEN [c EXCEPT !.result = name, !.sub = @ + 1]
    ELSE [c EXCEPT !.pc = "done", !.result = name, !.top = 0, !.sub = 0]

\* "return strategy(url)": the chain returns the result of strategy name
ChainReturns(c, name) == [c EXCEPT !.pc = "done", !.result = name, !.top = 0, !.sub = 0]

\* the chain raises text to its caller
ChainRaises(c, text) == [c EXCEPT !.pc = "done", !.raised = text, !.top = 0, !.sub = 0]

\* errors.append(f"{label}: {str(e)}")
Recorded(c, label, e) == [c EXCEPT !.errors = Append(@, <<label>> \o e)]

\* after method number c.top of extract_tiktok_video failed with text e: the
\* next method, or the end of the chain (app.py 72-107)
TikTokAfterFailure(c, e) ==
    LET d == Recorded(c, tiktok_chain[c.top], e)
    IN  IF c.top < Len(tiktok_chain)
        THEN [d EXCEPT !.top = @ + 1, !.sub = IF c.top + 1 = 4 THEN 1 ELSE 0]
        ELSE ChainRaises([d EXCEPT !.logged = <<"All TikTok extraction methods failed:">>
                                                 \o Join(d.errors)],
                         TikTokExhausted)

\* after an attempt of _extract_youtube_with_fallback failed (app.py 946-987)
YouTubeAfterFailure(c, e) ==
    LET d == Recorded(c, youtube_chain[c.top], e)
    IN  IF c.top < Len(youtube_chain)
        THEN [d EXCEPT !.top = @ + 1]
        ELSE ChainRaises([d EXCEPT !.logged = <<"All YouTube extraction methods failed:">>
                                                 \o Join(d.errors)],
                         YouTubeExhausted)

\* extract_direct_url is called with a URL of platform p (app.py 894-934)
ExtractDirectUrl ==
    /\ chain.pc \in {"idle", "done"}
    /\ \E p \in ChainPlatforms :
         chain' = IF p = "tiktok"
                  THEN [ChainIdle EXCEPT !.pc = "run", !.platform = p, !.top = 1,
                                         !.shared = chain.shared]
                  ELSE LET o == OtherPlatformOptions(chain.shared, p)
                       IN  [ChainIdle EXCEPT !.pc = "run", !.platform = p, !.top = 1,
                                             !.shared = o.base, !.options = o.options]
    /\ UNCHANGED <<relayVars, call>>

\* methods 1, 2, 3 and 5 of extract_tiktok_video (app.py 69-102)
TikTokMethod ==
    /\ chain.pc = "run" /\ chain.platform = "tiktok" /\ chain.top # 4
    /\ LET name == tiktok_chain[chain.top]
       IN  \E o \in {"ok"} \cup Whys, d \in Durations :
             chain' = Took(IF o = "ok"
                           THEN ChainReturns(Invoked(chain, name, Ok), name)
                           ELSE TikTokAfterFailure(Invoked(chain, name, <<name, o>>),
                                                   <<name, o>>),
                           d)
    /\ UNCHANGED <<relayVars, call>>

\* one pass of the loop of _extract_with_proxy_services, method 4 of
\* extract_tiktok_video (app.py 90-95, 119-127)
ProxyService ==
    /\ chain.pc = "run" /\ chain.platform = "tiktok" /\ chain.top = 4
    /\ LET name == proxy_services[chain.sub]
       IN  \E o \in {"ok"} \cup Whys, d \in Durations :
             chain' = Took(IF o = "ok"
                           THEN ChainReturns(Invoked(chain, name, Ok), name)
                           ELSE IF chain.sub < Len(proxy_services)
                           THEN [Invoked(chain, name, <<name, o>>) EXCEPT !.sub = @ + 1]
                           ELSE TikTokAfterFailure(Invoked(chain, name, <<name, o>>),
                                                   ProxyExhausted),
                           d)
    /\ UNCHANGED <<relayVars, call>>

\* one attempt of _extract_youtube_with_fallback (app.py 940-982)
YouTubeMethod ==
    /\ chain.pc = "run" /\ chain.platform = "youtube"
    /\ LET name == youtube_chain[chain.top]
       IN  \E o \in {"ok"} \cup Whys, d \in Durations :
             chain' = Took(IF o = "ok"
                           THEN ChainReturns(Invoked(chain, name, Ok), name)
                           ELSE YouTubeAfterFailure(Invoked(chain, name, <<name, o>>),
                                                    <<name, o>>),
                           d)
    /\ UNCHANGED <<relayVars, call>>

\* _extract_generic_platform: one call of yt-dlp, its exception is not caught
\* (app.py 989-993)
GenericExtract ==
    /\ chain.pc = "run" /\ chain.platform \notin {"tiktok", "youtube"}
    /\ \E o \in {"ok"} \cup Whys, d \in Durations :
         chain' = Took(IF o = "ok"
                       THEN ChainReturns(Invoked(chain, "yt-dlp", Ok), "yt-dlp")
                       ELSE ChainRaises(Invoked(chain, "yt-dlp", <<"yt-dlp", o>>),
                                        <<"yt-dlp", o>>),
                       d)
    /\ UNCHANGED <<relayVars, call>>

\* ---------------------------------------------------------- pure functions
\* One call of a function that reads no state: fn, its argument, and the
\* value it returned.
NoCall == [pc |-> "idle", fn |-> "none", arg |-> <<>>, ret |-> <<>>]

Called(fn, arg) == [pc |-> "called", fn |-> fn, arg |-> arg, ret |-> <<>>]

Returns(c, v) == [c EXCEPT !.pc = "returned", !.ret = v]

\* URLs: a scheme, a hostname, a path and a query, each one token
HostNames ==
    {"www.tiktok.com", "vm.tiktok.com", "WWW.TIKTOK.COM", "youtu.be", "m.youtube.com",
     "www.instagram.com", "fb.watch", "m.facebook.com", "v.douyin.com", "example.com"}
PathTokens == {"/", "/watch", "/tiktok.com/clip", "/share/youtu.be"}
QueryTokens == {"", "?ref=instagram.com", "?u=fb.watch"}

Urls == [host : HostNames, path : PathTokens, query : QueryTokens]

\* str.lower() of a token
Lower(tok) == IF tok = "WWW.TIKTOK.COM" THEN "www.tiktok.com" ELSE tok

\* the hostname patterns that are substrings of a (lower-case) token
Occurs(tok) ==
    CASE tok = "www.tiktok.com" -> {"tiktok.com"}
      [] tok = "vm.tiktok.com" -> {"tiktok.com", "vm.tiktok.com"}
      [] tok = "youtu.be" -> {"youtu.be"}
      [] tok = "m.youtube.com" -> {"youtube.com", "m.youtube.com"}
      [] tok = "www.instagram.com" -> {"instagram.com"}
      [] tok = "fb.watch" -> {"fb.watch"}
      [] tok = "m.facebook.com" -> {"facebook.com", "m.facebook.com"}
      [] tok = "v.douyin.com" -> {"douyin.com", "v.douyin.com"}
      [] tok = "/tiktok.com/clip" -> {"tiktok.com"}
      [] tok = "/share/youtu.be" -> {"youtu.be"}
      [] tok = "?ref=instagram.com" -> {"instagram.com"}
      [] tok = "?u=fb.watch" -> {"fb.watch"}
      [] OTHER -> {}

\* "x in text" for a hostname pattern x and a text made of tokens
In(x, text) == \E k \in DOMAIN text : x \in Occurs(text[k])

\* any(x in text for x in patterns)
AnyIn(patterns, text) == \E x \in patterns : In(x, text)

\* url.lower(): the whole URL in lower case
UrlLower(url) == <<"https://", Lower(url.host), Lower(url.path), Lower(url.query)>>

\* urlparse(url).netloc.lower(): the hostname in lower case
NetlocLower(url) == <<Lower(url.host)>>

\* StreamingVideoExtractor.detect_platform (app.py 1047-1060)
detect_platform(url) ==
    LET domain == UrlLower(url)
    IN  IF AnyIn({"tiktok.com", "vm.tiktok.com", "vt.tiktok.com"}, domain) THEN "tiktok"
        ELSE IF AnyIn({"youtube.com", "youtu.be", "m.youtube.com"}, domain) THEN "youtube"
        ELSE IF AnyIn({"instagram.com", "instagr.am"}, domain) THEN "instagram"
        ELSE IF AnyIn({"facebook.com", "fb.watch", "m.facebook.com"}, domain) THEN "facebook"
        ELSE "unknown"

\* platform_patterns of VideoDownloader.detect_platform, in the order of the
\* dict (video_downloader.py 190-196)
platform_patterns ==
    << <<"tiktok", {"tiktok.com", "vm.tiktok.com"}>>,
       <<"douyin", {"douyin.com", "v.douyin.com"}>>,
       <<"youtube", {"youtube.com", "youtu.be", "m.youtube.com"}>>,
       <<"facebook", {"facebook.com", "fb.watch", "m.facebook.com"}>>,
       <<"instagram", {"instagram.com", "instagr.am"}>> >>

\* the loop of VideoDownloader.detect_platform from entry k on
RECURSIVE FirstPlatform(_, _)
FirstPlatform(domain, k) ==
    IF k > Len(platform_patterns) THEN "unknown"
    ELSE IF AnyIn(platform_patterns[k][2], domain) THEN platform_patterns[k][1]
    ELSE FirstPlatform(domain, k + 1)

\* VideoDownloader.detect_platform (video_downloader.py 186-202)
VideoDownloader_detect_platform(url) == FirstPlatform(NetlocLower(url), 1)

\* detect_platform of the streaming extractor is called and returns
DetectPlatform ==
    /\ call.pc = "called" /\ call.fn = "detect_platform"
    /\ call' = Returns(call, detect_platform(call.arg))
    /\ UNCHANGED <<relayVars, chain>>

\* detect_platform of the command-line downloader is called and returns
VideoDownloaderDetectPlatform ==
    /\ call.pc = "called" /\ call.fn = "VideoDownloader.detect_platform"
    /\ call' = Returns(call, VideoDownloader_detect_platform(call.arg))
    /\ UNCHANGED <<relayVars, chain>>

DetectInit ==
    /\ RelayInit
    /\ chain = ChainIdle
    /\ call \in {Called(fn, url) :
                    fn \in {"detect_platform", "VideoDownloader.detect_platform"}, url \in Urls}

\* ---------------------------------------------------------------- filenames
\* A string is a sequence of runs: n copies of one character. The characters
\* are a word character, the hyphen, the blank, the path separator, a control
\* character that is not white space and the line feed; a text written out in
\* the code ("TikTok_", ".mp4") is a run of its own, named by the text.
MaxRuns == 2
LongRun == 40

Chars == {"a", "-", " ", "/", "NUL", "LF"}
Runs == [ch : Chars, n : {1, LongRun}]

Strings == UNION {[1..k -> Runs] : k \in 0..MaxRuns}

\* a value of the info dict: the key is missing, holds None, or holds a string
Missing == [kind |-> "missing", s |-> <<>>]
None == [kind |-> "None", s |-> <<>>]
Str(s) == [kind |-> "str", s |-> s]

Lit(text, n) == <<[ch |-> text, n |-> n]>>

\* len(s)
RECURSIVE Width(_)
Width(s) == IF s = <<>> THEN 0 ELSE Head(s).n + Width(Tail(s))

\* re.sub(r'[...]', '', s) for a character class
Without(s, class) == SelectSeq(s, LAMBDA r : r.ch \notin class)

\* the characters of [<>:"/\\|?*] in the alphabet
Reserved == {"/"}

\* the characters outside [\w\s-] in the alphabet
NotWordSpaceHyphen == {"/", "NUL"}

\* the characters of [-\s] in the alphabet
HyphenOrSpace == {"-", " ", "LF"}

RECURSIVE SkipHyphenOrSpace(_)
SkipHyphenOrSpace(s) ==
    IF s # <<>> /\ Head(s).ch \in HyphenOrSpace THEN SkipHyphenOrSpace(Tail(s)) ELSE s

\* re.sub(r'[-\s]+', '-', s)
RECURSIVE Collapse(_)
Collapse(s) ==
    IF s = <<>> THEN <<>>
    ELSE IF Head(s).ch \in HyphenOrSpace
         THEN Lit("-", 1) \o Collapse(SkipHyphenOrSpace(s))
         ELSE <<Head(s)>> \o Collapse(Tail(s))

RECURSIVE StripLeft(_)
StripLeft(s) == IF s # <<>> /\ Head(s).ch = "-" THEN StripLeft(Tail(s)) ELSE s

RECURSIVE StripRight(_)
StripRight(s) ==
    IF s # <<>> /\ s[Len(s)].ch = "-" THEN StripRight(SubSeq(s, 1, Len(s) - 1)) ELSE s

\* s.strip('-')
Strip(s) == StripRight(StripLeft(s))

\* s[:k]
RECURSIVE Prefix(_, _)
Prefix(s, k) ==
    IF s = <<>> \/ k = 0 THEN <<>>
    ELSE IF Head(s).n <= k THEN <<Head(s)>> \o Prefix(Tail(s), k - Head(s).n)
    ELSE <<[Head(s) EXCEPT !.n = k]>>

\* the three substitutions, the strip and the cut shared by the three
\* _clean_filename functions
CleanName(s) ==
    LET clean_name == Strip(Collapse(Without(Without(s, Reserved), NotWordSpaceHyphen)))
    IN  IF clean_name # <<>> THEN Prefix(clean_name, 30) ELSE Lit("video", 5)

\* AdvancedTikTokExtractor._clean_filename and the module's clean_filename:
\* a value that is None or empty gives 'video'
clean_filename(v) == IF v.kind = "None" \/ v.s = <<>> THEN Lit("video", 5) ELSE CleanName(v.s)

\* StreamingVideoExtractor._clean_filename has no such test: re.sub raises
\* TypeError on None
StreamingCleanRaises(v) == v.kind = "None"

\* f"{v}" of a value that is None or a string
Format(v) == IF v.kind = "None" THEN Lit("None", 4) ELSE v.s

\* dict.get(key, default)
Get(v, default) == IF v.kind = "missing" THEN default ELSE v

\* f'TikTok_Video_{video_id}'
DefaultTitle(video_id) == Str(Lit("a", 13) \o Format(video_id))

\* the filename of the TikTok strategies that carry the video id
\* (app.py 749, 778, 817, 849)
TikTokFilename(title, video_id) ==
    Lit("TikTok_", 7) \o clean_filename(Get(title, DefaultTitle(video_id)))
        \o Lit("_", 1) \o Format(video_id) \o Lit(".mp4", 4)

\* the names the proxy strategies put in the filename, with their lengths
ProxyTags ==
    {<<"SnapTik", 7>>, <<"TikMate", 7>>, <<"SaveTT", 6>>, <<"TikWM", 5>>, <<"Proxy", 5>>,
     <<"SSSTik", 6>>}

\* the filename of the proxy strategies (app.py 189, 247, 299, 351, 410, 490, 1153)
ProxyFilename(tag, title) ==
    Lit("TikTok_", 7) \o Lit(tag[1], tag[2]) \o Lit("_", 1) \o clean_filename(title)
        \o Lit(".mp4", 4)

\* platform.title() followed by the underscore
PlatformTitle(platform) ==
    CASE platform = "youtube" -> Lit("Youtube_", 8)
      [] platform = "instagram" -> Lit("Instagram_", 10)
      [] platform = "facebook" -> Lit("Facebook_", 9)
      [] OTHER -> Lit("Unknown_", 8)

\* the filename of _format_platform_response (app.py 1024-1030)
PlatformFilename(platform, title, ext) ==
    PlatformTitle(platform) \o CleanName(Get(title, Str(Lit("video", 5))).s)
        \o Lit(".", 1) \o Format(Get(ext, Str(Lit("mp4", 3))))

Titles == {Missing, None} \cup {Str(s) : s \in Strings}
VideoIds == {None, Str(Lit("7", 19)), Str(Lit("7", LongRun))}
Exts == {Missing} \cup {Str(<<r>>) : r \in Runs}
OtherPlatforms == ChainPlatforms \ {"tiktok"}

\* a TikTok strategy that carries the video id builds its result
FormatTikTokResponse ==
    /\ call.pc = "called" /\ call.fn = "_format_tiktok_response"
    /\ call' = Returns(call, TikTokFilename(call.arg.title, call.arg.video_id))
    /\ UNCHANGED <<relayVars, chain>>

\* a proxy strategy builds its result
FormatProxyResponse ==
    /\ call.pc = "called" /\ call.fn = "proxy"
    /\ call' = Returns(call, ProxyFilename(call.arg.tag, call.arg.title))
    /\ UNCHANGED <<relayVars, chain>>

\* _format_platform_response builds its result, or _clean_filename raises
FormatPlatformResponse ==
    /\ call.pc = "called" /\ call.fn = "_format_platform_response"
    /\ call' = IF StreamingCleanRaises(Get(call.arg.title, Str(Lit("video", 5))))
               THEN [call EXCEPT !.pc = "raised", !.ret = Lit("TypeError", 9)]
               ELSE Returns(call, PlatformFilename(call.arg.platform, call.arg.title, call.arg.ext))
    /\ UNCHANGED <<relayVars, chain>>

FilenameCalls ==
    {Called("_format_tiktok_response", [title |-> t, video_id |-> v]) :
        t \in Titles, v \in VideoIds}
    \cup {Called("proxy", [tag |-> g, title |-> t]) : g \in ProxyTags, t \in Titles \ {Missing}}
    \cup {Called("_format_platform_response", [platform |-> p, title |-> t, ext |-> e]) :
            p \in OtherPlatforms, t \in Titles, e \in Exts}

FilenameInit ==
    /\ RelayInit
    /\ chain = ChainIdle
    /\ call \in FilenameCalls

\* --------------------------------------------------------------- renditions
\* The entries of info['formats']: url is "" or set, vcodec and acodec are
\* 'none' or a codec, height a number of lines.  A URL of the result is
\* named by where it came from: info['url'], or entry k of the formats.
MaxFormats == 2

Renditions == [url : {"", "set"}, vcodec : {"none", "h264"}, acodec : {"none", "aac"},
               height : {360, 720}]

FormatLists == UNION {[1..k -> Renditions] : k \in 0..MaxFormats}

\* info dicts: url is "" (missing or empty) or set; formats is a list
Infos == [url : {"", "set"}, formats : FormatLists]

TopUrl == [from |-> "info", k |-> 0]
FormatUrl(k) == [from |-> "formats", k |-> k]
NoDirectUrl == [from |-> "none", k |-> 0]

\* the first loop of _format_platform_response (app.py 1005-1009) from entry
\* k on, best being the index of best_format (0 for None)
RECURSIVE BestWithBoth(_, _, _)
BestWithBoth(formats, k, best) ==
    IF k > Len(formats) THEN best
    ELSE LET fmt == formats[k]
         IN  IF fmt.url # "" /\ fmt.vcodec # "none" /\ fmt.acodec # "none"
                /\ (best = 0 \/ fmt.height > formats[best].height)
             THEN BestWithBoth(formats, k + 1, k)
             ELSE BestWithBoth(formats, k + 1, best)

\* the second loop (app.py 1012-1016): the first entry with a URL, 0 if none
FirstWithUrl(formats) ==
    IF \E k \in DOMAIN formats : formats[k].url # ""
    THEN CHOOSE k \in DOMAIN formats :
            formats[k].url # "" /\ \A j \in 1..(k - 1) : formats[j].url = ""
    ELSE 0

\* direct_url of _format_platform_response (app.py 1001-1022); NoDirectUrl
\* makes it raise
PlatformDirectUrl(info) ==
    IF info.url # "" THEN TopUrl
    ELSE LET both == BestWithBoth(info.formats, 1, 0)
             best_format == IF both # 0 THEN both ELSE FirstWithUrl(info.formats)
         IN  IF best_format # 0 THEN FormatUrl(best_format) ELSE NoDirectUrl

\* direct_url of _format_tiktok_response (app.py 834-841)
TikTokDirectUrl(info) ==
    IF info.url # "" THEN TopUrl
    ELSE IF info.formats # <<>> /\ info.formats[1].url # "" THEN FormatUrl(1)
    ELSE NoDirectUrl

\* the call returns the direct URL it chose, or raises when it has none
ChoiceOutcome(c, direct_url) ==
    IF direct_url = NoDirectUrl
    THEN [c EXCEPT !.pc = "raised", !.ret = direct_url]
    ELSE Returns(c, direct_url)

\* _format_platform_response picks the direct URL
ChoosePlatformRendition ==
    /\ call.pc = "called" /\ call.fn = "_format_platform_response.direct_url"
    /\ call' = ChoiceOutcome(call, PlatformDirectUrl(call.arg))
    /\ UNCHANGED <<relayVars, chain>>

\* _format_tiktok_response picks the direct URL
ChooseTikTokRendition ==
    /\ call.pc = "called" /\ call.fn = "_format_tiktok_response.direct_url"
    /\ call' = ChoiceOutcome(call, TikTokDirectUrl(call.arg))
    /\ UNCHANGED <<relayVars, chain>>

RenditionInit ==
    /\ RelayInit
    /\ chain = ChainIdle
    /\ call \in {Called(fn, info) :
                    fn \in {"_format_platform_response.direct_url",
                            "_format_tiktok_response.direct_url"},
                    info \in Infos}

\* ------------------------------------------------ headers of the upstream GET
\* perform_streaming builds the headers of its GET
BuildHeaders ==
    /\ call.pc = "called" /\ call.fn = "perform_streaming.headers"
    /\ call' = Returns(call, UpstreamHeaders(call.arg.headers, call.arg.mentions_tiktok,
                                             call.arg.request))
    /\ UNCHANGED <<relayVars, chain>>

HeadersInit ==
    /\ RelayInit
    /\ chain = ChainIdle
    /\ call \in {Called("perform_streaming.headers",
                        [headers |-> h, mentions_tiktok |-> t, request |-> rq]) :
                    h \in InfoHeaders, t \in BOOLEAN,
                    rq \in {NoHeaders, [Range |-> ""], [Range |-> "bytes=1-"]}}

\* --------------------------------------------------------- mirror strategies
\* The third-party strategies as the requests they send.  Of a strategy the
\* call record holds, in ret, the requests sent so far, the token read from
\* the page ("" for none) and how the strategy ended.
MaxTokens == 4

Mirrors == {"SnapTik", "TikMate", "SaveTT", "TikWM", "SSSTik"}

\* the strategies that start with a GET of the service's page (app.py 145,
\* 455); the others post at once (app.py 221, 279, 334)
FetchesPage(mirror) == mirror \in {"SnapTik", "SSSTik"}

\* the values of the hidden token field a page can carry
Tokens == {<<"token", n>> : n \in 1..MaxTokens}
NoToken == <<>>

MirrorCalled(mirror, url) ==
    [pc |-> IF FetchesPage(mirror) THEN "get" ELSE "post", fn |-> mirror, arg |-> url,
     ret |-> [requests |-> <<>>, token |-> NoToken, outcome |-> "none"]]

\* the strategy sends a request
Sent(c, request) == [c EXCEPT !.ret.requests = Append(@, request)]

\* the GET of SnapTik and SSSTik and the search for the token (app.py
\* 144-153, 453-462): the request fails, or the page has no token field,
\* or it has one
MirrorGet ==
    /\ call.pc = "get"
    /\ \E page \in {<<"error">>, <<"no token">>} \cup Tokens :
         LET c == Sent(call, [method |-> "GET", to |-> call.fn])
         IN  call' = IF page \in Tokens
                     THEN [c EXCEPT !.pc = "post", !.ret.token = page]
                     ELSE [c EXCEPT !.pc = "raised", !.ret.outcome = page[1]]
    /\ UNCHANGED <<relayVars, chain>>

\* the POST of the target URL and the parsing of the answer (app.py 155-203,
\* 219-261, 277-317, 327-366, 464-504): the request fails, or the answer
\* holds a download URL as JSON or in its HTML, or none
MirrorPost ==
    /\ call.pc = "post"
    /\ \E answer \in {"error", "json", "html", "nothing"} :
         LET c == Sent(call, [method |-> "POST", to |-> call.fn, url |-> call.arg,
                              token |-> call.ret.token])
         IN  call' = [c EXCEPT !.pc = IF answer \in {"json", "html"} THEN "returned"
                                      ELSE "raised",
                               !.ret.outcome = answer]
    /\ UNCHANGED <<relayVars, chain>>

MirrorInit ==
    /\ RelayInit
    /\ chain = ChainIdle
    /\ call \in {MirrorCalled(mirror, url) : mirror \in Mirrors, url \in UrlForms}

\* ------------------------------------------------------- page-scrape strategy
\* A fetched page as _extract_with_browser_sim reads it: for each of the
\* three script patterns (app.py 646-650) what the page holds, and whether
\* the regex patterns of _extract_from_html_patterns find a URL in the HTML.
\* A blob is absent (the pattern does not match), unparseable (json.loads
\* raises JSONDecodeError), holds no video entry (_find_video_in_data gives
\* None), or holds an entry without or with a video URL.
BlobPatterns == 3
Blobs == {"absent", "unparseable", "no entry", "entry without url", "entry with url"}
Pages == [blobs : [1..BlobPatterns -> Blobs], html : {"url", "nothing"}]

ScrapeResult(how, regex_tried) == [how |-> how, regex_tried |-> regex_tried]

\* _extract_from_html_patterns (app.py 791-830)
ExtractFromHtmlPatterns(page) ==
    IF page.html = "url" THEN ScrapeResult("regex", TRUE) ELSE ScrapeResult("raised", TRUE)

\* the loop over the script patterns from pattern k on (app.py 652-661) and
\* the fallback after it (app.py 663-664); _parse_extracted_data raises
\* Exception for an entry without URL (app.py 769-770), which
\* "except json.JSONDecodeError" does not catch
RECURSIVE BrowserSimFrom(_, _)
BrowserSimFrom(page, k) ==
    IF k > BlobPatterns THEN ExtractFromHtmlPatterns(page)
    ELSE LET blob == page.blobs[k]
         IN  IF blob = "entry with url" THEN ScrapeResult("blob", FALSE)
             ELSE IF blob = "entry without url" THEN ScrapeResult("raised", FALSE)
             ELSE BrowserSimFrom(page, k + 1)

\* _extract_with_browser_sim once the page is fetched (app.py 642-668)
BrowserSim ==
    /\ call.pc = "called" /\ call.fn = "_extract_with_browser_sim"
    /\ LET result == BrowserSimFrom(call.arg, 1)
       IN  call' = [call EXCEPT !.pc = IF result.how = "raised" THEN "raised" ELSE "returned",
                                !.ret = result]
    /\ UNCHANGED <<relayVars, chain>>

ScrapeInit ==
    /\ RelayInit
    /\ chain = ChainIdle
    /\ call \in {Called("_extract_with_browser_sim", page) : page \in Pages}

\* ------------------------------------------- clear_downloads, step by step
\* The routes run in threads of the server and nothing locks the registry.
\* clear_downloads (app.py 1654-1664) first evaluates the dict comprehension
\* over the dictionary the global names, and only then rebinds the global to
\* the result; a thread that runs in between still reads and writes the old
\* dictionary.  call holds the frame of the clear_downloads call in
\* progress: ret is the set of keys of the dictionary it built.  The values
\* of the new dictionary are the record objects of the old one.
ClearDownloadsFrame(reg) == Returns(Called("clear_downloads", <<>>), DOMAIN Retained(reg))

\* the dictionary the global is rebound to: the keys chosen by the
\* comprehension, each with the record object it had, as it is now
Rebound(kept, reg) == [k \in kept |-> reg[k]]

\* clear_downloads evaluates the comprehension (app.py 1659-1663, right side)
ClearDownloadsBuild ==
    /\ call = NoCall
    /\ call' = ClearDownloadsFrame(active_downloads)
    /\ UNCHANGED <<active_downloads, inv, nextId, streams, chain>>

\* clear_downloads assigns the global and returns (app.py 1660, 1664-1672)
ClearDownloadsRebind ==
    /\ call.fn = "clear_downloads"
    /\ active_downloads' = Rebound(call.ret, active_downloads)
    /\ call' = NoCall
    /\ UNCHANGED <<inv, nextId, streams, chain>>

\* ------------------------------------- VideoDownloader.download_multiple_links
\* A link is a string, modelled as the sequence of its characters; " " is
\* white space.  links is a list of at most MaxLinks links.
MaxLinks == 3
MaxLinkLen == 2

LinkChars == {" ", "a", "b"}
LinkStrings == UNION {[1..k -> LinkChars] : k \in 0..MaxLinkLen}
LinkLists == UNION {[1..k -> LinkStrings] : k \in 0..MaxLinks}

RECURSIVE LStrip(_)
LStrip(s) == IF s # <<>> /\ Head(s) = " " THEN LStrip(Tail(s)) ELSE s

RECURSIVE RStrip(_)
RStrip(s) == IF s # <<>> /\ s[Len(s)] = " " THEN RStrip(SubSeq(s, 1, Len(s) - 1)) ELSE s

\* link.strip()
LinkStrip(s) == RStrip(LStrip(s))

\* [link.strip() for link in links if link.strip()] (video_downloader.py 740)
RECURSIVE valid_links(_)
valid_links(links) ==
    IF links = <<>> THEN <<>>
    ELSE IF LinkStrip(Head(links)) # <<>>
         THEN <<LinkStrip(Head(links))>> \o valid_links(Tail(links))
         ELSE valid_links(Tail(links))

\* what one call of download_video does (video_downloader.py 322-440): it
\* returns True, returns False, or raises
DownloadOutcomes == {"True", "False", "raises"}

\* the locals of download_multiple_links: i counts the passes of the loop,
\* attempted lists the URLs download_video was called with and outcomes what
\* each call did
BatchLocals(valid) ==
    [valid_links |-> valid, i |-> 0, success_count |-> 0, attempted |-> <<>>,
     outcomes |-> <<>>, result |-> FALSE]

\* a variant that leaves the loop when download_video raises
AfterDownload_stops(b, url, outcome) ==
    [b EXCEPT !.i = IF outcome = "raises" THEN Len(b.valid_links) ELSE @ + 1,
              !.attempted = Append(@, url),
              !.outcomes = Append(@, outcome),
              !.success_count = IF outcome = "True" THEN @ + 1 ELSE @]

\* one pass of the loop for url (video_downloader.py 757-770): the count
\* goes up when download_video returned True; an exception is printed
AfterDownload(b, url, outcome) ==
    [b EXCEPT !.i = @ + 1,
              !.attempted = Append(@, url),
              !.outcomes = Append(@, outcome),
              !.success_count = IF outcome = "True" THEN @ + 1 ELSE @]

\* download_multiple_links up to the loop (video_downloader.py 735-755)
BatchBegin ==
    /\ call.pc = "called"
    /\ call.fn = "download_multiple_links"
    /\ LET valid == valid_links(call.arg)
       IN  call' = IF call.arg = <<>> \/ valid = <<>>
                   THEN Returns(call, BatchLocals(valid))
                   ELSE [call EXCEPT !.pc = "loop", !.ret = BatchLocals(valid)]
    /\ UNCHANGED <<active_downloads, inv, nextId, streams, chain>>

\* one pass of the loop (video_downloader.py 757-777)
BatchDownload ==
    /\ call.pc = "loop"
    /\ call.ret.i < Len(call.ret.valid_links)
    /\ \E outcome \in DownloadOutcomes :
         call' = [call EXCEPT !.ret = AfterDownload(@, @.valid_links[@.i + 1], outcome)]
    /\ UNCHANGED <<active_downloads, inv, nextId, streams, chain>>

\* the loop is over (video_downloader.py 779-785)
BatchReturn ==
    /\ call.pc = "loop"
    /\ call.ret.i >= Len(call.ret.valid_links)
    /\ call' = Returns(call, [call.ret EXCEPT !.result = call.ret.success_count > 0])
    /\ UNCHANGED <<active_downloads, inv, nextId, streams, chain>>

BatchInit ==
    /\ RelayInit
    /\ chain = ChainIdle
    /\ call \in {Called("download_multiple_links", links) : links \in LinkLists}

\* ------------------------------------------------------------------ claims
\* the order in which a chain is configured to try its strategies, the
\* services of the proxy sub-chain in the place of "Proxy services"
ConfiguredOrder(p) ==
    IF p = "tiktok"
    THEN SubSeq(tiktok_chain, 1, 3) \o proxy_services \o SubSeq(tiktok_chain, 5, 5)
    ELSE IF p = "youtube" THEN youtube_chain ELSE <<"yt-dlp">>

\* C1: in every chain the strategies are invoked in the configured order,
\* each only after all earlier ones failed; a strategy that returns a result
\* is the last one invoked, and the chain returns its result.
C1_ChainStopsAtFirstSuccess ==
    chain.pc # "idle" =>
        LET order == ConfiguredOrder(chain.platform)
            n == Len(chain.invoked)
        IN  /\ n <= Len(order)
            /\ Len(chain.outcomes) = n
            /\ \A k \in 1..n :
                 /\ chain.invoked[k] = order[k]
                 /\ chain.outcomes[k] = Ok =>
                      k = n /\ chain.pc = "done" /\ chain.result = order[k]
            /\ chain.result # "none" => n >= 1 /\ chain.outcomes[n] = Ok

\* C1 witness: the second service of the proxy sub-chain won after four
\* failures, and the four strategies after it were not invoked
C1_Witness ==
    /\ chain.pc = "done"
    /\ chain.platform = "tiktok"
    /\ chain.result = "TikMate"
    /\ Len(chain.invoked) = 5

\* C2: the status of a session only moves ready -> streaming and
\* streaming -> completed or error; a session that reached completed or
\* error keeps that status, also when a second stream is started for it.
C2_StatusMovesForward ==
    [][\A id \in (DOMAIN active_downloads) \cap (DOMAIN active_downloads') :
         LET a == active_downloads[id].status
             b == active_downloads'[id].status
         IN  a # b => \/ a = "ready" /\ b = "streaming"
                      \/ a = "streaming" /\ b \in {"completed", "error"}]_vars

\* C3: every upstream GET of a stream invocation uses a direct URL that an
\* extraction run inside that same invocation returned, and no session
\* record stores a direct URL.
C3_FetchUsesFreshUrl ==
    /\ \A i \in Invs :
         inv[i].pc \in {"get", "body"} =>
             /\ inv[i].direct_url[1] = inv[i].serial
             /\ inv[i].direct_url[2] \in 1..inv[i].nextract
    /\ \A id \in DOMAIN active_downloads :
         "direct_url" \notin DOMAIN active_downloads[id]

\* C3 witness: the second stream of a session is reading the body of a GET
\* sent after its first fetch had failed
C3_Witness ==
    \E i \in Invs :
        /\ inv[i].serial = 2
        /\ inv[i].pc = "body"
        /\ inv[i].retry = 1
        /\ inv[i].direct_url = <<2, 3>>

\* C4: once a media chunk of a fetch has been yielded and that fetch fails,
\* the invocation ends: no further extraction is run and no new upstream GET
\* is opened.
C4_NoRestartAfterPrefix ==
    \A i \in Invs : inv[i].prior => inv[i].pc = "done"

\* C5: a direct URL that answered 403 or 404 is not requested again unless
\* a new extraction ran in between.
C5_NoRefetchOfDeadUrl ==
    \A i \in Invs : inv[i].pc = "get" => inv[i].direct_url # inv[i].dead

\* str(e) mentions the refusal
Mentions403(e) == Contains(e, "403") \/ Contains(e, "Forbidden")

\* C6: when every attempt of a stream invocation had its GET answered 403, the
\* session ends with status 'error' and a failure reason that mentions
\* 403/Forbidden, and the byte sequence of the invocation yielded no byte.
C6_ForbiddenFailsWithoutBytes ==
    \A i \in Invs :
        (/\ inv[i].pc = "done"
         /\ inv[i].answers = "only403"
         /\ inv[i].id \in DOMAIN active_downloads) =>
            /\ active_downloads[inv[i].id].status = "error"
            /\ Mentions403(active_downloads[inv[i].id].error)
            /\ ~inv[i].errmsg
            /\ ~inv[i].prior /\ inv[i].delivered = 0

\* text ends with the text tail
EndsWith(text, tail) ==
    /\ Len(text) >= Len(tail)
    /\ SubSeq(text, Len(text) - Len(tail) + 1, Len(text)) = tail

\* C7: for a session that is not TikTok a stream invocation makes at most
\* three extract-and-fetch attempts; when all three failed the session has
\* status 'error' with the error of the last attempt recorded, the failure
\* event is the last one published, and the invocation never marks the
\* session completed.
C7_RegularRetriesBounded ==
    \A i \in Invs :
        inv[i].platform \notin {"tiktok", "none"} =>
            /\ inv[i].failed <= 3
            /\ inv[i].nextract <= 1 + 3
            /\ inv[i].pc \in {"reg_extract", "get", "body"} =>
                 /\ inv[i].failed < 3
                 /\ inv[i].id \in DOMAIN active_downloads =>
                      active_downloads[inv[i].id].status = "streaming"
            /\ (/\ inv[i].pc = "done"
                /\ inv[i].failed = 3
                /\ inv[i].id \in DOMAIN active_downloads) =>
                 LET d == active_downloads[inv[i].id]
                 IN  /\ d.status = "error"
                     /\ EndsWith(d.error, inv[i].err)
                     /\ inv[i].emitted =
                          Event("download_status",
                                [id |-> inv[i].id, status |-> "error", error |-> d.error])

\* C7 witness: the third attempt of a YouTube stream broke in the middle of
\* the body, and the session is in error
C7_Witness ==
    \E i \in Invs :
        /\ inv[i].pc = "done"
        /\ inv[i].platform = "youtube"
        /\ inv[i].failed = 3
        /\ inv[i].err = ErrMidstream
        /\ inv[i].id \in DOMAIN active_downloads
        /\ active_downloads[inv[i].id].status = "error"

\* the number of places where the text sub occurs in text
Occurrences(text, sub) ==
    Cardinality({q \in 1..(Len(text) - Len(sub) + 1) :
                    SubSeq(text, q, q + Len(sub) - 1) = sub})

\* C8: when every strategy of a chain failed, the text of the error the
\* caller receives contains the failure reason of every attempted strategy
\* exactly once.
C8_DetailListsEveryReason ==
    (chain.pc = "done" /\ chain.result = "none") =>
        \A k \in 1..Len(chain.outcomes) : Occurrences(chain.raised, chain.outcomes[k]) = 1

\* C9: when the consumer stops reading after k of the n bytes (k > 0),
\* exactly those k bytes have been read from the upstream and nothing more
\* is, the upstream session is closed, and the session is not marked
\* completed.
C9_ConsumerStopEndsFetch ==
    \A i \in Invs :
        (inv[i].end = "closed" /\ inv[i].delivered > 0) =>
            /\ inv[i].pc = "done"
            /\ inv[i].downloaded = inv[i].delivered
            /\ ~inv[i].open
            /\ "status" \in DOMAIN inv[i].emitted => inv[i].emitted.status # "completed"
            /\ inv[i].id \in DOMAIN active_downloads =>
                 active_downloads[inv[i].id].status # "completed"

\* C9 witness: the consumer left after the first of two bytes
C9_Witness ==
    \E i \in Invs :
        /\ inv[i].end = "closed"
        /\ inv[i].delivered = 1
        /\ inv[i].remaining = 1
        /\ inv[i].id \in DOMAIN active_downloads
        /\ active_downloads[inv[i].id].status = "streaming"

\* C10: when the upstream served N bytes and the invocation ended with the
\* session completed, the session's downloaded_bytes is N and the last
\* event published carries percentage 100.
C10_CompletedCountsAllBytes ==
    \A i \in Invs :
        (/\ inv[i].pc = "done"
         /\ inv[i].end = "normal"
         /\ inv[i].http = 200
         /\ ~inv[i].errmsg
         /\ inv[i].id \in DOMAIN active_downloads
         /\ active_downloads[inv[i].id].status = "completed") =>
            /\ "downloaded_bytes" \in DOMAIN active_downloads[inv[i].id]
            /\ active_downloads[inv[i].id].downloaded_bytes = inv[i].downloaded
            /\ "percentage" \in DOMAIN inv[i].emitted
            /\ inv[i].emitted.percentage = 100 * PercentScale

\* C11: within one session the progress events are published with
\* downloaded_bytes that never decreases: a progress event carries at least
\* the count of the progress event published before it for that session
\* (which the session record holds), across retries, method fallbacks and
\* successive stream invocations.
C11_ProgressNeverDecreases ==
    [][\A i \in Invs :
         LET e == inv'[i].emitted
         IN  (/\ e.name = "download_progress"
              /\ e # inv[i].emitted
              /\ e.id \in DOMAIN active_downloads
              /\ "downloaded_bytes" \in DOMAIN active_downloads[e.id]) =>
                 e.downloaded_bytes >= active_downloads[e.id].downloaded_bytes]_vars

\* C12: while two stream invocations of the same session are both relaying
\* a body, the downloaded_bytes stored in the session record never decreases
\* from one step to the next.
C12_StoredCountNeverDecreases ==
    [][\A id \in (DOMAIN active_downloads) \cap (DOMAIN active_downloads') :
         (/\ \A i \in Invs : inv[i].pc = "body" /\ inv[i].id = id
          /\ "downloaded_bytes" \in DOMAIN active_downloads[id]) =>
             /\ "downloaded_bytes" \in DOMAIN active_downloads'[id]
             /\ active_downloads'[id].downloaded_bytes >=
                    active_downloads[id].downloaded_bytes]_vars

C14_UnknownSessionNotFound ==
    [][\A i \in Invs :
         inv'[i].http = 404 =>
             /\ inv'[i].pc = "done"
             /\ inv'[i].nextract = 0
             /\ inv'[i].direct_url = NoUrl
             /\ inv'[i].emitted.name = "none"
             /\ inv'[i].delivered = 0 /\ ~inv'[i].errmsg
             /\ inv'[i] # inv[i] =>
                  /\ inv'[i].id \notin DOMAIN active_downloads
                  /\ active_downloads' = active_downloads]_vars

\* C14 witness: the session was removed by clear_downloads and then
\* requested again
C14_Witness ==
    /\ nextId = 2
    /\ active_downloads = <<>>
    /\ \E i \in Invs : inv[i].http = 404 /\ inv[i].serial = 2 /\ inv[i].id = 1

\* C15: a quick_download call whose extraction succeeds adds exactly one
\* session, under an id no session had before, with status ready, and
\* changes no session that was there; a call whose extraction fails leaves
\* the registry as it was.
C15_QuickDownloadAddsOneReady ==
    [][\A p \in Extractions :
         QuickDownloadFor(p) =>
             IF p \in Platforms
             THEN \E id \in (DOMAIN active_downloads') \ (DOMAIN active_downloads) :
                    /\ DOMAIN active_downloads' = (DOMAIN active_downloads) \cup {id}
                    /\ active_downloads'[id].status = "ready"
                    /\ active_downloads'[id].id = id
                    /\ active_downloads'[id].platform = p
                    /\ \A k \in DOMAIN active_downloads :
                         active_downloads'[k] = active_downloads[k]
             ELSE active_downloads' = active_downloads]_vars

\* C15 witness: a second session was created while the first one was being
\* streamed
C15_Witness ==
    /\ DOMAIN active_downloads = {1, 2}
    /\ active_downloads[2].status = "ready"
    /\ active_downloads[1].status = "streaming"
    /\ "downloaded_bytes" \in DOMAIN active_downloads[1]

\* C16: a session record has a failure reason (the key 'error') only while
\* its status is 'error'.
C16_ReasonOnlyWhenFailed ==
    \A id \in DOMAIN active_downloads :
        "error" \in DOMAIN active_downloads[id] => active_downloads[id].status = "error"

\* str(e) says that the platform is not supported
MentionsUnsupported(e) == Contains(e, "unsupported") \/ Contains(e, "Unsupported platform")

\* C17: for a URL whose platform is unknown, extract_direct_url invokes no
\* extraction strategy, and ends by raising an unsupported-platform error.
C17_UnknownPlatformRejected ==
    chain.platform = "unknown" =>
        /\ chain.invoked = <<>>
        /\ chain.pc = "done" => chain.result = "none" /\ MentionsUnsupported(chain.raised)

\* C20: after any sequence of extract_direct_url calls the extractor's
\* shared base_options, http_headers included, equal their initial value.
C20_BaseOptionsUntouched ==
    chain.shared = base_options

\* the platform whose configured hostname patterns the hostname of the URL
\* contains, for the pattern table of each of the two functions
HostPlatform(fn, url) ==
    LET host == Lower(url.host)
        has(pats) == \E x \in pats : x \in Occurs(host)
    IN  IF has({"tiktok.com", "vm.tiktok.com", "vt.tiktok.com"}) THEN "tiktok"
        ELSE IF fn # "detect_platform" /\ has({"douyin.com", "v.douyin.com"}) THEN "douyin"
        ELSE IF has({"youtube.com", "youtu.be", "m.youtube.com"}) THEN "youtube"
        ELSE IF has({"instagram.com", "instagr.am"}) THEN "instagram"
        ELSE IF has({"facebook.com", "fb.watch", "m.facebook.com"}) THEN "facebook"
        ELSE "unknown"

\* C18: detect_platform returns for every URL the platform whose hostname
\* patterns the hostname of the URL contains, and unknown when the hostname
\* contains none, whatever the path and the query string hold.
C18_ClassifiedByHostname ==
    call.pc = "returned" /\ call.fn \in {"detect_platform", "VideoDownloader.detect_platform"} =>
        call.ret = HostPlatform(call.fn, call.arg)

FilenameFns == {"_format_tiktok_response", "proxy", "_format_platform_response"}

\* C19: the filename of every result, for every title, video id and file
\* extension, is non-empty, holds no path separator and no control character,
\* and is at most 80 characters long.
C19_FilenameIsSafe ==
    call.pc = "returned" /\ call.fn \in FilenameFns =>
        /\ Width(call.ret) \in 1..80
        /\ \A k \in DOMAIN call.ret : call.ret[k].ch \notin {"/", "NUL", "LF"}

\* C21: a TikTok strategy invoked for a session with a short URL receives
\* the URL only after _clean_tiktok_url was applied to it, never the short
\* URL as the session holds it.
C21_StrategyGetsCleanedUrl == \A i \in Invs : inv[i].given = ShortUrl => inv[i].cleaned

HasUrl(f) == f.url # ""
HasBoth(f) == HasUrl(f) /\ f.vcodec # "none" /\ f.acodec # "none"
VideoOnly(f) == HasUrl(f) /\ f.vcodec # "none" /\ f.acodec = "none"

\* the choice the preference order allows among the entries of formats:
\* entry k may be chosen
Preferred(formats, k) ==
    LET some(P(_)) == \E j \in DOMAIN formats : P(formats[j])
    IN  IF some(HasBoth) THEN HasBoth(formats[k])
        ELSE IF some(VideoOnly)
        THEN /\ VideoOnly(formats[k])
             /\ \A j \in DOMAIN formats :
                    VideoOnly(formats[j]) => formats[j].height <= formats[k].height
        ELSE k = FirstWithUrl(formats)

RenditionFns ==
    {"_format_platform_response.direct_url", "_format_tiktok_response.direct_url"}

\* C22: when the result has no URL of its own and offers renditions, the
\* direct URL is that of a rendition with video and audio if there is one,
\* else of the highest video-only rendition if there is one, else of the
\* first rendition with a URL, and the call fails only if no rendition has
\* a URL.
C22_RenditionPreference ==
    call.fn \in RenditionFns /\ call.pc \in {"returned", "raised"} /\ call.arg.url = "" =>
        IF \E j \in DOMAIN call.arg.formats : HasUrl(call.arg.formats[j])
        THEN /\ call.pc = "returned"
             /\ call.ret.from = "formats"
             /\ Preferred(call.arg.formats, call.ret.k)
        ELSE call.pc = "raised"

\* C23 as stated: every upstream GET carries the caller's Range header with
\* its value unchanged whenever the caller sent one, and no Range header
\* when the caller sent none.
C23_RangeForwarded ==
    \A i \in Invs :
        inv[i].pc \in {"get", "body"} =>
            IF "Range" \in DOMAIN inv[i].request
            THEN "Range" \in DOMAIN inv[i].sent /\ inv[i].sent["Range"] = inv[i].request["Range"]
            ELSE "Range" \notin DOMAIN inv[i].sent

\* C23 amended: every upstream GET, of the first attempt, of a retry and of
\* a fallback method, carries the caller's Range header with its value
\* unchanged when the caller sent one with a non-empty value, and no Range
\* header when the caller sent none or an empty one.
C23_NonEmptyRangeForwarded ==
    \A i \in Invs :
        inv[i].pc \in {"get", "body"} =>
            IF Truthy(inv[i].request, "Range")
            THEN "Range" \in DOMAIN inv[i].sent /\ inv[i].sent["Range"] = inv[i].request["Range"]
            ELSE "Range" \notin DOMAIN inv[i].sent

\* a GET of a retry or of a fallback method carries the caller's Range
C23_Witness ==
    \E i \in Invs :
        /\ inv[i].pc = "get"
        /\ inv[i].retry > 0 \/ inv[i].method > 1
        /\ Truthy(inv[i].request, "Range")
        /\ "Range" \in DOMAIN inv[i].sent
        /\ inv[i].sent["Range"] = "bytes=1-"

\* C24: every header of the extraction result's header mapping is sent on
\* the upstream GET with the value the strategy supplied; the relay adds
\* headers and replaces none.
C24_StrategyHeadersKept ==
    call.pc = "returned" /\ call.fn = "perform_streaming.headers" =>
        \A h \in DOMAIN call.arg.headers : call.ret[h] = call.arg.headers[h]

\* C25: the length and the partial-content status of the outward response
\* are those of the upstream response relayed: a partial upstream answer is
\* passed on as partial content with the upstream's length, and a length
\* the outward response announces is the number of bytes of the body
\* relayed.
C25_OutwardLengthIsUpstream ==
    \A i \in Invs :
        inv[i].pc = "body" /\ ~inv[i].prior =>
            /\ inv[i].upstream = 206 =>
                    inv[i].http = 206 /\ inv[i].response_length = inv[i].total_size
            /\ inv[i].response_length > 0 =>
                    inv[i].response_length = inv[i].delivered + inv[i].remaining

\* C26: two consecutive progress events of one upstream fetch are at least
\* one second apart, whether or not the total size is known.
C26_ProgressSpacedBySecond ==
    \A i \in Invs : inv[i].events = 2 => inv[i].gap >= TicksPerSecond

\* C27: when a stream invocation fails, its byte sequence ends with a
\* failure signal, never the way a completed sequence ends.
C27_FailureEndsWithSignal ==
    \A i \in Invs : inv[i].pc = "done" /\ inv[i].errmsg => inv[i].end # "normal"

\* the ceiling on the time of one chain resolution, in minutes: the model
\* counts the time up to one minute beyond it
Ceiling == MaxElapsed - 1

\* C28: the time one chain resolution spends over all its strategies is
\* capped: once the ceiling is exceeded the chain invokes no further
\* strategy and returns no result, it fails.
C28_ChainTimeCapped ==
    chain.elapsed > Ceiling => chain.pc = "done" /\ chain.result = "none"

\* C29: a mirror strategy posts the target URL only after its GET of the
\* service's page gave a token, and the POST carries that token.
C29_PostCarriesToken ==
    call.fn \in Mirrors =>
        \A k \in DOMAIN call.ret.requests :
            call.ret.requests[k].method = "POST" =>
                /\ \E j \in 1..(k - 1) : call.ret.requests[j].method = "GET"
                /\ call.ret.token \in Tokens
                /\ call.ret.requests[k].token = call.ret.token

\* C30: whenever the JSON blobs give no usable video URL, the strategy goes
\* on to the regex extraction from the HTML, and it fails only if that
\* finds nothing either.
C30_ScrapeFallsBackToRegex ==
    call.fn = "_extract_with_browser_sim" /\ call.pc \in {"returned", "raised"} =>
        /\ (\A k \in 1..BlobPatterns : call.arg.blobs[k] # "entry with url")
                => call.ret.regex_tried
        /\ call.pc = "raised" => call.ret.regex_tried /\ call.arg.html = "nothing"

\* a stream_video invocation for session id is running
Running(id) == \E i \in Invs : Active(i) /\ inv[i].id = id

\* C31: no session is left in status streaming when no stream invocation is
\* running for it: however an invocation ends, the session it streamed is
\* completed or failed afterwards.
C31_NoSessionLeftStreaming ==
    \A id \in DOMAIN active_downloads :
        active_downloads[id].status = "streaming" => Running(id)

\* C32: a session that quick_download has registered stays in the registry
\* until it is completed or failed: no step removes a session whose status
\* is neither, whatever else runs at the same time as clear_downloads.
C32_SessionNotLost ==
    [][\A id \in DOMAIN active_downloads :
         id \notin DOMAIN active_downloads' =>
             active_downloads[id].status \in {"completed", "error"}]_vars

\* C33: the session of a running stream invocation, looked up when the
\* invocation began, is in the registry for as long as the invocation runs,
\* so no registry update of the invocation meets a missing key.
C33_RunningSessionStaysRegistered ==
    \A i \in Invs :
        /\ Active(i) => inv[i].id \in DOMAIN active_downloads
        /\ inv[i].err # ErrKey

\* C34: in handle_tiktok_streaming the first fetch of a method follows its
\* extraction; a further fetch for the same method is started only for a
\* method that is not a third-party service, only once, and only after the
\* first one failed with a 403/Forbidden error; every other failure leaves
\* the method for the next one, or ends the loop after the last; and a fetch
\* that runs to the end ends the invocation.
C34_TikTokFetchesPerMethod ==
    [][\A i \in Invs :
         LET r == inv[i]
             s == inv'[i]
         IN  r.platform = "tiktok" /\ r.pc \in {"tt_extract", "get", "body"} /\ s # r =>
               /\ r.pc = "tt_extract" /\ s.pc = "get" =>
                    s.method = r.method /\ s.attempt = 0
               /\ r.pc # "tt_extract" /\ s.pc = "get" /\ s.attempt # r.attempt =>
                    /\ s.method = r.method
                    /\ ~IsService(tiktok_methods[r.method])
                    /\ r.attempt = 0 /\ s.attempt = 1
                    /\ Mentions403(s.error_str)
               /\ s.pc = "tt_extract" => s.method = r.method + 1 /\ s.attempt = 0
               /\ s.pc \in {"get", "body"} => s.method = r.method
               /\ r.pc = "body" /\ s.emitted.name = "download_status"
                     /\ s.emitted.status = "completed" => s.pc = "done"]_vars

\* C34 witness: the ninth method, which is no third-party service, is in the
\* body of its second fetch, after the fetch of a service method had failed
C34_Witness ==
    \E i \in Invs :
        /\ inv[i].platform = "tiktok"
        /\ inv[i].method = 9
        /\ inv[i].attempt = 1
        /\ inv[i].pc = "body"
        /\ Mentions403(inv[i].error_str)
        /\ inv[i].prior

\* C35: a stream invocation runs a bounded number of extractions and of
\* upstream fetches (three attempts for a session that is not TikTok; the ten
\* methods with two fetches each for a TikTok session; each fetch sends its
\* request at most 1 + RetryTotal times), and, while the consumer keeps
\* reading and every HTTP call ends, it reaches its end.
C35_InvocationTerminates ==
    /\ [](\A i \in Invs :
            /\ inv[i].tries \in 0..RetryTotal
            /\ inv[i].platform = "tiktok" =>
                 /\ inv[i].method \in 0..Len(tiktok_methods)
                 /\ inv[i].attempt \in 0..1
                 /\ inv[i].retry = 0
                 /\ inv[i].nextract <= 1 + Len(tiktok_methods)
            /\ inv[i].platform # "tiktok" =>
                 /\ inv[i].retry \in 0..(max_retries - 1)
                 /\ inv[i].failed <= max_retries
                 /\ inv[i].method = 0 /\ inv[i].attempt = 0
                 /\ inv[i].nextract <= 1 + max_retries)
    /\ \A i \in Invs : Active(i) ~> (inv[i].pc = "done")

\* C35 witness: an invocation has ended after the last of its attempts
\* failed, for a TikTok session after the tenth method, for another session
\* after the third attempt
C35_Witness ==
    \E i \in Invs :
        /\ inv[i].pc = "done"
        /\ inv[i].errmsg
        /\ inv[i].nextract = 1 + (IF inv[i].platform = "tiktok" THEN Len(tiktok_methods)
                                  ELSE max_retries)

\* C36: when the extraction that stream_video runs before it builds the
\* response fails, the request is answered with an error (400) and that is
\* all: the registry is left as it was, the invocation publishes no event,
\* yields no byte and no error text, has no byte sequence, and is over.
C36_InitialFailureChangesNothing ==
    [][\A i \in Invs :
         inv[i].pc = "initial" /\ inv'[i] # inv[i] /\ inv'[i].pc # "response" =>
             /\ inv'[i].http = 400
             /\ inv'[i].pc = "done"
             /\ active_downloads' = active_downloads
             /\ inv'[i].emitted.name = "none"
             /\ inv'[i].delivered = 0 /\ ~inv'[i].errmsg
             /\ inv'[i].end = "none"
             /\ inv'[i].direct_url = NoUrl]_vars

\* C36 witness: the session was streamed to completion, and the initial
\* extraction of a second request for it has failed
C36_Witness ==
    \E i \in Invs :
        /\ inv[i].http = 400
        /\ inv[i].serial = 2
        /\ inv[i].id \in DOMAIN active_downloads
        /\ active_downloads[inv[i].id].status = "completed"

\* the links of a list that hold a character other than white space
RECURSIVE NonBlank(_)
NonBlank(links) ==
    IF links = <<>> THEN <<>>
    ELSE IF \E k \in DOMAIN Head(links) : Head(links)[k] # " "
         THEN <<Head(links)>> \o NonBlank(Tail(links))
         ELSE NonBlank(Tail(links))

\* a link without the white space around it: what is left when the longest
\* prefix and suffix of white space are cut off
Trimmed(link) ==
    LET inside == {k \in DOMAIN link : link[k] # " "}
        lo == CHOOSE k \in inside : \A j \in inside : k <= j
        hi == CHOOSE k \in inside : \A j \in inside : k >= j
    IN  IF inside = {} THEN <<>> ELSE SubSeq(link, lo, hi)

\* C37: when download_multiple_links has returned, download_video was called
\* once for each link that is not blank, in the order of the list, whatever
\* the earlier calls did; the result is True exactly when a call returned
\* True; for a list that is empty or holds only blank links nothing was
\* attempted and the result is False.
C37_BatchAttemptsEveryLink ==
    call.fn = "download_multiple_links" /\ call.pc = "returned" =>
        LET wanted == NonBlank(call.arg)
            b == call.ret
        IN  /\ Len(b.attempted) = Len(wanted)
            /\ \A k \in DOMAIN wanted : b.attempted[k] = Trimmed(wanted[k])
            /\ b.result <=> \E k \in DOMAIN b.outcomes : b.outcomes[k] = "True"
            /\ wanted = <<>> => b.attempted = <<>> /\ ~b.result

\* C37 witness: of three links the first was blank, the download of the
\* second raised and the download of the third succeeded
C37_Witness ==
    /\ call.fn = "download_multiple_links"
    /\ call.pc = "returned"
    /\ Len(call.arg) = 3
    /\ call.arg[1] = <<" ">>
    /\ call.ret.outcomes = <<"raises", "True">>
    /\ call.ret.result

Init == RelayInit /\ chain = ChainIdle /\ call = NoCall

Next ==
    \/ QuickDownload
    \/ ClearDownloads
    \/ \E i \in Invs, id \in Ids : StreamRequest(i, id)
    \/ \E i \in Invs : InitialExtract(i)
    \/ \E i \in Invs : GenerateStream(i)
    \/ \E i \in Invs : RegularExtract(i)
    \/ \E i \in Invs : TikTokExtract(i)
    \/ \E i \in Invs : UpstreamGet(i)
    \/ \E i \in Invs : Chunk(i)
    \/ \E i \in Invs : StreamBreaks(i)
    \/ \E i \in Invs : Finish(i)
    \/ \E i \in Invs : ConsumerClose(i)

Spec == Init /\ [][Next]_vars

NextChain ==
    \/ ExtractDirectUrl
    \/ TikTokMethod
    \/ ProxyService
    \/ YouTubeMethod
    \/ GenericExtract

SpecChain == Init /\ [][NextChain]_vars

\* the server handles requests in threads: a stream may start while another
\* one is running, for the same session or for another one
QuickDownloadConcurrent ==
    /\ nextId <= MaxConcurrentSessions
    /\ \E p \in Extractions : QuickDownloadFor(p)

\* the surroundings of the concurrent streams behave: every extraction run
\* by a stream succeeds and every upstream GET is answered 200 at once with
\* a body that arrives whole
Undisturbed ==
    \A i \in Invs :
        /\ inv[i].failed = 0
        /\ inv[i].method <= 1
        /\ inv[i].err = <<>>
        /\ inv[i].http # 400
        /\ inv[i].tries \in {0, RetryTotal}

NextConcurrent ==
    \/ QuickDownloadConcurrent /\ Undisturbed'
    \/ ClearDownloads /\ Undisturbed'
    \/ (\E i \in Invs, id \in 1..MaxConcurrentSessions : StreamVideo(i, id)) /\ Undisturbed'
    \/ (\E i \in Invs : InitialExtract(i)) /\ Undisturbed'
    \/ (\E i \in Invs : GenerateStream(i)) /\ Undisturbed'
    \/ (\E i \in Invs : RegularExtract(i)) /\ Undisturbed'
    \/ (\E i \in Invs : TikTokExtract(i)) /\ Undisturbed'
    \/ (\E i \in Invs : UpstreamGet(i)) /\ Undisturbed'
    \/ (\E i \in Invs : Chunk(i)) /\ Undisturbed'
    \/ (\E i \in Invs : Finish(i)) /\ Undisturbed'
    \/ (\E i \in Invs : ConsumerClose(i)) /\ Undisturbed'

SpecConcurrent == Init /\ [][NextConcurrent]_vars

\* the two detect_platform functions applied to every URL of Urls
NextDetect ==
    \/ DetectPlatform
    \/ VideoDownloaderDetectPlatform

SpecDetect == DetectInit /\ [][NextDetect]_vars

\* every way a result's filename is built, applied to every input
NextFilename ==
    \/ FormatTikTokResponse
    \/ FormatProxyResponse
    \/ FormatPlatformResponse

SpecFilename == FilenameInit /\ [][NextFilename]_vars

\* One stream request for one session, with the inputs of the session and
\* of the request drawn from their sets: quick_download for a URL of either
\* form
QuickDownloadAny ==
    /\ nextId <= MaxSessions
    /\ \E p \in Extractions, url \in UrlForms :
         /\ url = ShortUrl => p = "tiktok"
         /\ QuickDownloadUrl(p, url)

\* request.headers of the callers: no Range header, an empty one, one that
\* asks for the bytes from the second on
Requests == {NoHeaders, [Range |-> ""], [Range |-> "bytes=1-"]}

\* the filesize of the initial extraction's result: None (0) or a number
\* of bytes
Filesizes == 0..MaxBytes

\* no second request arrives
OneRequest == streams <= 1

NextRequest ==
    \/ QuickDownloadAny /\ OneRequest'
    \/ ClearDownloads /\ OneRequest'
    \/ (\E i \in Invs, id \in Ids, rq \in Requests : StreamVideoFrom(i, id, rq))
           /\ OneRequest'
    \/ (\E i \in Invs : InitialExtractOf(i, Filesizes)) /\ OneRequest'
    \/ (\E i \in Invs : GenerateStream(i)) /\ OneRequest'
    \/ (\E i \in Invs : RegularExtract(i)) /\ OneRequest'
    \/ (\E i \in Invs : TikTokExtract(i)) /\ OneRequest'
    \/ (\E i \in Invs : UpstreamGet(i)) /\ OneRequest'
    \/ (\E i \in Invs : Chunk(i)) /\ OneRequest'
    \/ (\E i \in Invs : StreamBreaks(i)) /\ OneRequest'
    \/ (\E i \in Invs : Finish(i)) /\ OneRequest'
    \/ (\E i \in Invs : ConsumerClose(i)) /\ OneRequest'

SpecRequest == Init /\ [][NextRequest]_vars

\* the routes run in threads: clear_downloads in two steps, with
\* quick_download and one stream request whose surroundings behave
NextRace ==
    \/ QuickDownloadConcurrent /\ Undisturbed' /\ OneRequest'
    \/ ClearDownloadsBuild /\ Undisturbed' /\ OneRequest'
    \/ ClearDownloadsRebind /\ Undisturbed' /\ OneRequest'
    \/ (\E i \in Invs, id \in 1..MaxConcurrentSessions : StreamVideo(i, id))
           /\ Undisturbed' /\ OneRequest'
    \/ (\E i \in Invs : InitialExtract(i)) /\ Undisturbed' /\ OneRequest'
    \/ (\E i \in Invs : GenerateStream(i)) /\ Undisturbed' /\ OneRequest'
    \/ (\E i \in Invs : RegularExtract(i)) /\ Undisturbed' /\ OneRequest'
    \/ (\E i \in Invs : TikTokExtract(i)) /\ Undisturbed' /\ OneRequest'
    \/ (\E i \in Invs : UpstreamGet(i)) /\ Undisturbed' /\ OneRequest'
    \/ (\E i \in Invs : Chunk(i)) /\ Undisturbed' /\ OneRequest'
    \/ (\E i \in Invs : Finish(i)) /\ Undisturbed' /\ OneRequest'
    \/ (\E i \in Invs : ConsumerClose(i)) /\ Undisturbed' /\ OneRequest'

SpecRace == Init /\ [][NextRace]_vars

\* One stream request whose consumer reads to the end: no ConsumerClose.
\* A step of the generator is taken whenever one is possible: the server
\* thread that runs the invocation is not suspended for ever and each HTTP
\* call it waits for returns, with a reply, an error or a timeout.
InvocationStep ==
    \E i \in Invs :
        \/ InitialExtract(i)
        \/ GenerateStream(i)
        \/ RegularExtract(i)
        \/ TikTokExtract(i)
        \/ UpstreamGet(i)
        \/ Chunk(i)
        \/ StreamBreaks(i)
        \/ Finish(i)

NextReading ==
    \/ QuickDownload /\ OneRequest'
    \/ ClearDownloads /\ OneRequest'
    \/ (\E i \in Invs, id \in Ids : StreamRequest(i, id)) /\ OneRequest'
    \/ (\E i \in Invs : InitialExtract(i)) /\ OneRequest'
    \/ (\E i \in Invs : GenerateStream(i)) /\ OneRequest'
    \/ (\E i \in Invs : RegularExtract(i)) /\ OneRequest'
    \/ (\E i \in Invs : TikTokExtract(i)) /\ OneRequest'
    \/ (\E i \in Invs : UpstreamGet(i)) /\ OneRequest'
    \/ (\E i \in Invs : Chunk(i)) /\ OneRequest'
    \/ (\E i \in Invs : StreamBreaks(i)) /\ OneRequest'
    \/ (\E i \in Invs : Finish(i)) /\ OneRequest'

SpecReading == Init /\ [][NextReading]_vars /\ WF_vars(InvocationStep)

\* the two ways a direct URL is picked from an info dict, applied to every
\* info dict of Infos
NextRendition ==
    \/ ChoosePlatformRendition
    \/ ChooseTikTokRendition

SpecRendition == RenditionInit /\ [][NextRendition]_vars

\* the headers of the upstream GET built for every result and request
NextHeaders == BuildHeaders

SpecHeaders == HeadersInit /\ [][NextHeaders]_vars

\* every mirror strategy run against every behaviour of its service
NextMirror ==
    \/ MirrorGet
    \/ MirrorPost

SpecMirror == MirrorInit /\ [][NextMirror]_vars

\* the page-scrape strategy run on every page of Pages
NextScrape == BrowserSim

SpecScrape == ScrapeInit /\ [][NextScrape]_vars

\* download_multiple_links run on every list of LinkLists
NextBatch ==
    \/ BatchBegin
    \/ BatchDownload
    \/ BatchReturn

SpecBatch == BatchInit /\ [][NextBatch]_vars

====
